---- MODULE Spec2Model ----
(***************************************************************************)
(* A model of hidl-gen's AST (AST.cpp: package, scope path, defined-types  *)
(* index, imports, lookupType) and of its C++ back end (generateCpp.cpp:   *)
(* the artifact driver and the proxy / stub code it emits).                *)
(***************************************************************************)
EXTENDS Integers, Sequences, FiniteSets, TLC

(***************************************************************************)
(* Bounds of the model.                                                    *)
(***************************************************************************)
\* Objects (Scope / NamedType) one AST allocates, the root scope included.
MaxObjs == 4
\* The same for a file without imports.
MaxDeclObjs == 5
\* The enterScope and leaveScope calls an unbalanced caller makes.
MaxScopeCalls == 5
\* ASTs the import set may hold.
MaxImports == 2
\* Names the imported-names set and the Java imported-names set may hold.
MaxNames == 1

(***************************************************************************)
(* FQName: package (dot-separated components), version, name (dot-         *)
(* separated components).  An absent field is the empty sequence / string. *)
(***************************************************************************)
FQ(p, v, n) == [package |-> p, version |-> v, names |-> n]

NoFQName == FQ(<<>>, "", <<>>)

\* s is a right-hand suffix of t, component by component.
IsSuffix(s, t) ==
    /\ Len(s) <= Len(t)
    /\ \A i \in 1..Len(s) : s[i] = t[Len(t) - Len(s) + i]

\* FQName::endsWith: the right-hand suffixes of package, version and name
\* match the non-empty fields of other.
EndsWith(fq, other) ==
    /\ other.names # <<>> => IsSuffix(other.names, fq.names)
    /\ other.version # "" => fq.version = other.version
    /\ other.package # <<>> => IsSuffix(other.package, fq.package)

\* FQName::applyDefaults: fills the missing fields, overwrites none.
ApplyDefaults(fq, defaultPackage, defaultVersion) ==
    FQ(IF fq.package = <<>> THEN defaultPackage ELSE fq.package,
       IF fq.version = "" THEN defaultVersion ELSE fq.version,
       fq.names)

(***************************************************************************)
(* The ASTs the coordinator can hand out, with the defined-types index     *)
(* each one built through addScopedTypeInternal (key = fullName, package   *)
(* and version those of the AST).  An index is listed in the key order of  *)
(* its std::map.  Type ids of imported types start at 101; 100 is a scalar *)
(* type and 99 the PredefinedType ::android::hardware::MQDescriptor, which *)
(* have no FQName.                                                         *)
(***************************************************************************)
PkgP == <<"p">>
PkgQ == <<"q">>
PkgXQ == <<"x", "q">>

ImportedTypeTable ==
    (99 :> [kind |-> "PredefinedType", fullName |-> NoFQName, referencedType |-> 0]) @@
    (100 :> [kind |-> "ScalarType", fullName |-> NoFQName, referencedType |-> 0]) @@
    (101 :> [kind |-> "CompoundType", fullName |-> FQ(PkgQ, "1.0", <<"Bar">>), referencedType |-> 0]) @@
    (102 :> [kind |-> "CompoundType", fullName |-> FQ(PkgQ, "1.0", <<"Outer">>), referencedType |-> 0]) @@
    (103 :> [kind |-> "CompoundType", fullName |-> FQ(PkgQ, "1.0", <<"Outer", "Bar">>), referencedType |-> 0]) @@
    (104 :> [kind |-> "TypeDef", fullName |-> FQ(PkgQ, "1.0", <<"Alias">>), referencedType |-> 111]) @@
    (105 :> [kind |-> "TypeDef", fullName |-> FQ(PkgQ, "1.0", <<"Alias2">>), referencedType |-> 113]) @@
    (106 :> [kind |-> "CompoundType", fullName |-> FQ(PkgQ, "1.0", <<"MQDescriptor">>), referencedType |-> 0]) @@
    (111 :> [kind |-> "Interface", fullName |-> FQ(PkgQ, "1.0", <<"IQ">>), referencedType |-> 0]) @@
    (112 :> [kind |-> "CompoundType", fullName |-> FQ(PkgQ, "1.0", <<"IQ", "Folder">>), referencedType |-> 0]) @@
    (113 :> [kind |-> "TypeDef", fullName |-> FQ(PkgQ, "1.0", <<"IQ", "Tag">>), referencedType |-> 112]) @@
    (121 :> [kind |-> "Interface", fullName |-> FQ(PkgXQ, "1.0", <<"IQ">>), referencedType |-> 0]) @@
    (122 :> [kind |-> "CompoundType", fullName |-> FQ(PkgXQ, "1.0", <<"IQ", "Folder">>), referencedType |-> 0]) @@
    (131 :> [kind |-> "CompoundType", fullName |-> FQ(PkgP, "1.0", <<"Own">>), referencedType |-> 0])

ImportedTypeIds == DOMAIN ImportedTypeTable

\* AST id -> the file it was parsed from, its package, its index (in key order).
ASTTable ==
    (1 :> [file |-> FQ(PkgQ, "1.0", <<"types">>), package |-> FQ(PkgQ, "1.0", <<>>),
           index |-> <<104, 105, 101, 106, 102, 103>>]) @@
    (2 :> [file |-> FQ(PkgQ, "1.0", <<"IQ">>), package |-> FQ(PkgQ, "1.0", <<>>),
           index |-> <<111, 112, 113>>]) @@
    (3 :> [file |-> FQ(PkgXQ, "1.0", <<"IQ">>), package |-> FQ(PkgXQ, "1.0", <<>>),
           index |-> <<121, 122>>]) @@
    (4 :> [file |-> FQ(PkgP, "1.0", <<"types">>), package |-> FQ(PkgP, "1.0", <<>>),
           index |-> <<131>>])

ASTIds == DOMAIN ASTTable

VARIABLES
    mPackage,                 \* AST::mPackage
    objs,                     \* the Scope / NamedType objects of this AST, by id
    mScopePath,               \* AST::mScopePath (ids of scopes, innermost last)
    mDefinedTypesByFullName,  \* AST::mDefinedTypesByFullName (FQName -> id)
    mImportedASTs,            \* AST::mImportedASTs
    mImportedNames,           \* AST::mImportedNames
    mImportedNamesForJava,    \* AST::mImportedNamesForJava
    aborted,                  \* a fatal CHECK (or a fault) ended the process
    last,                     \* the last call, its inputs and what it returned
    scopeCalls,               \* the enterScope (the scope's id) and leaveScope
                              \* (0) calls made since construction, in order
    outputPath,               \* generateCpp's argument ("none" before the call)
    genPc,                    \* generateCpp: 0 not called, k the k-th generator
                              \* is next, 7 returned
    err,                      \* generateCpp's local err
    ran,                      \* the generators called so far, in order, each
                              \* with the status it returned
    files,                    \* the files the generators have opened for writing
    returned,                 \* what generateCpp returned ("none" before)
    rootInterface,            \* mRootScope->getInterface(), "none" if none
    proxySource,              \* the proxy's method bodies, as generated
    stubSource,               \* the cases of the stub's onTransact, as generated
    passthroughSource,        \* the pass-through adapter's method bodies
    headers,                  \* the method declarations of the interface
                              \* header and of the proxy header, and the
                              \* base classes of the stub class
    svc,                      \* the last call of getService / registerAsService
    call,                     \* the call of generated code that is running
    trace                     \* what the running (or last) call has done so far

astVars == <<mPackage, objs, mScopePath, mDefinedTypesByFullName, mImportedASTs,
             mImportedNames, mImportedNamesForJava, aborted, last, scopeCalls>>

cppVars == <<outputPath, genPc, err, ran, files, returned>>

emitVars == <<rootInterface, proxySource, stubSource, passthroughSource, headers, svc,
              call, trace>>

backendVars == <<cppVars, emitVars>>

vars == <<astVars, backendVars>>

(***************************************************************************)
(* Types: the objects of this AST (ids 1..Len(objs), 1 the root scope) and *)
(* the types of the other ASTs.                                            *)
(***************************************************************************)
TypeRec(t) == IF t \in ImportedTypeIds THEN ImportedTypeTable[t] ELSE objs[t]

IsTypeDef(t) == TypeRec(t).kind = "TypeDef"

IsInterface(t) == TypeRec(t).kind = "Interface"

IsNamedType(t) == TypeRec(t).kind \in {"Interface", "CompoundType", "EnumType", "TypeDef"}

NewObj(kind, localName, referencedType) ==
    [kind |-> kind, localName |-> localName, fullName |-> NoFQName,
     referencedType |-> referencedType, types |-> <<>>]

\* What a call leaves in "last": its name, its result (ok, obj), its input
\* name (arg), the full name it gave or matched (name), the way it took (via)
\* and the sets it may change as they were when it was entered (pre).
Pre == [names |-> mImportedNames, java |-> mImportedNamesForJava,
        index |-> mDefinedTypesByFullName, imports |-> mImportedASTs]

Call(op, ok, arg, obj, name, via) ==
    [op |-> op, ok |-> ok, arg |-> arg, obj |-> obj, name |-> name,
     via |-> via, pre |-> Pre]

\* No call of generated code: side "proxy" or "stub" and the index of the
\* method once there is one, pc the statement that is next (0: none),
\* _hidl_err, whether the caller's callback is null, whether the token of
\* the incoming parcel matches, the callback calls the implementation has
\* still to make, _hidl_callbackCalled, and how the call ended; the calls of
\* the callback the implementation chose to make (cbCalls); for the
\* pass-through adapter _hidl_return, _hidl_error and the state of the
\* one-way task ("none", "queued", "done") with the statement the task
\* runner executes next (taskPc); for onTransact the
\* calls of itself that are on the stack (depth).
IdleCall ==
    [side |-> "none", index |-> 0, pc |-> 0, hidlErr |-> "OK", cbIsNull |-> FALSE,
     tokenMatches |-> TRUE, cbLeft |-> 0, called |-> FALSE, outcome |-> "none",
     cbCalls |-> 0, hidlReturn |-> "OK", hidlError |-> "OK", task |-> "none",
     taskPc |-> 0, depth |-> 0]

\* No call of getService or registerAsService yet.
IdleSvc == [op |-> "none", in |-> <<>>, events |-> <<>>, result |-> "none"]

\* No header written yet.
IdleHeaders == [interface |-> <<>>, proxy |-> <<>>, stubBases |-> <<>>]

\* Nothing generated, no generated code running.
InitEmitIdle ==
    /\ proxySource = <<>>
    /\ headers = IdleHeaders
    /\ stubSource = <<>>
    /\ passthroughSource = <<>>
    /\ svc = IdleSvc
    /\ call = IdleCall
    /\ trace = <<>>

\* generateCpp has not been called.
InitBackend ==
    /\ outputPath = "none"
    /\ genPc = 0
    /\ err = "OK"
    /\ ran = <<>>
    /\ files = {}
    /\ returned = "none"
    /\ rootInterface = "none"
    /\ InitEmitIdle

\* AST::AST: a root scope with the empty local name, entered at once.
Init ==
    /\ InitBackend
    /\ mPackage = NoFQName
    /\ objs = <<NewObj("Scope", "", 0)>>
    /\ mScopePath = <<1>>
    /\ mDefinedTypesByFullName = [k \in {} |-> 0]
    /\ mImportedASTs = {}
    /\ mImportedNames = {}
    /\ mImportedNamesForJava = {}
    /\ aborted = FALSE
    /\ scopeCalls = <<>>
    /\ last = [op |-> "init", ok |-> TRUE, arg |-> NoFQName, obj |-> 0,
               name |-> NoFQName, via |-> "none",
               pre |-> [names |-> {}, java |-> {}, index |-> [k \in {} |-> 0],
                        imports |-> {}]]

(***************************************************************************)
(* AST::setPackage                                                         *)
(***************************************************************************)
PackageInputs ==
    {FQ(PkgP, "1.0", <<>>), FQ(PkgP, "1.0", <<"IFoo">>)}

SetPackage(package) ==
    /\ ~aborted
    /\ mPackage' = package
    /\ last' = Call("setPackage",
                    ~(package.package = <<>> \/ package.version = ""
                      \/ package.names # <<>>),
                    package, 0, NoFQName, "none")
    /\ UNCHANGED <<backendVars, scopeCalls, objs, mScopePath, mDefinedTypesByFullName, mImportedASTs,
                   mImportedNames, mImportedNamesForJava, aborted>>

(***************************************************************************)
(* AST::enterScope, AST::leaveScope, AST::scope                            *)
(***************************************************************************)
\* The containers a caller enters (kind, local name) and the local names of
\* the other types it adds.
ContainerInputs == {<<"Interface", "IQ">>, <<"CompoundType", "Bar">>}

ContainerKinds == {c[1] : c \in ContainerInputs}

LocalNames == {"Bar"}

\* mScopePath after a pop_back on the empty vector, which is undefined: the
\* end pointer lies before the begin pointer, so the vector is not empty()
\* and its back() is no scope (0).
Wrapped == <<0>>

\* What a call on the wrapped vector, or a call on what its back() gives,
\* may do: the process faults, or it goes on with the vector as it is.
UndefinedOutcomes == {"fault", "goesOn"}

\* The parser allocates the container (an interface or a struct) and enters
\* it; it is added to its parent scope only after it has been left.
EnterScope(kind, localName) ==
    /\ ~aborted
    /\ objs' = Append(objs, NewObj(kind, localName, 0))
    /\ scopeCalls' = Append(scopeCalls, Len(objs) + 1)
    /\ IF mScopePath # Wrapped
       THEN /\ mScopePath' = Append(mScopePath, Len(objs) + 1)
            /\ last' = Call("enterScope", TRUE, NoFQName, Len(objs) + 1, NoFQName,
                            "none")
            /\ UNCHANGED aborted
       ELSE \E outcome \in UndefinedOutcomes :
               /\ aborted' = (outcome = "fault")
               /\ last' = Call("enterScope", outcome # "fault", NoFQName,
                               Len(objs) + 1, NoFQName, "undefined")
               /\ UNCHANGED mScopePath
    /\ UNCHANGED <<backendVars, mPackage, mDefinedTypesByFullName, mImportedASTs,
                   mImportedNames, mImportedNamesForJava>>

\* pop_back; on the empty vector (and on the wrapped one) it is undefined.
LeaveScope ==
    /\ ~aborted
    /\ scopeCalls' = Append(scopeCalls, 0)
    /\ IF mScopePath # <<>> /\ mScopePath # Wrapped
       THEN /\ mScopePath' = SubSeq(mScopePath, 1, Len(mScopePath) - 1)
            /\ last' = Call("leaveScope", TRUE, NoFQName,
                            mScopePath[Len(mScopePath)], NoFQName, "none")
            /\ UNCHANGED aborted
       ELSE \E outcome \in UndefinedOutcomes :
               /\ aborted' = (outcome = "fault")
               /\ mScopePath' = IF outcome = "fault" THEN mScopePath ELSE Wrapped
               /\ last' = Call("leaveScope", outcome # "fault", NoFQName, 0,
                               NoFQName, "undefined")
    /\ UNCHANGED <<backendVars, mPackage, objs, mDefinedTypesByFullName, mImportedASTs,
                   mImportedNames, mImportedNamesForJava>>

\* The bottom of the scope path instead of its top.
ScopeOfBottom(path) == path[1]

\* AST::scope: CHECK(!mScopePath.empty()), then the innermost scope.
ScopeOf(path) == path[Len(path)]

(***************************************************************************)
(* Scope::addType, Scope::lookupType                                       *)
(***************************************************************************)
\* The member of scope s with this local name, 0 if there is none.
ScopeMember(s, localName) ==
    LET hits == {i \in 1..Len(objs[s].types) :
                    objs[objs[s].types[i]].localName = localName}
    IN  IF hits = {} THEN 0 ELSE objs[s].types[CHOOSE i \in hits : TRUE]

\* A scope that takes every type.
ScopeCanAddAlways(s, localName) == TRUE

\* Scope::addType fails if the local name already exists.
ScopeCanAdd(s, localName) == ScopeMember(s, localName) = 0

\* Scope::lookupType: a single identifier without package and version is
\* matched by local name; anything else matches nothing.
ScopeLookupType(s, fqName) ==
    IF fqName.package = <<>> /\ fqName.version = "" /\ Len(fqName.names) = 1
    THEN ScopeMember(s, fqName.names[1])
    ELSE 0

(***************************************************************************)
(* AST::addScopedTypeInternal, AST::addScopedType, AST::addTypeDef         *)
(***************************************************************************)
RECURSIVE ScopePathNames(_, _)
\* The local names of mScopePath[i..], the root scope (index 1) left out.
ScopePathNames(path, i) ==
    IF i > Len(path) THEN <<>>
    ELSE <<objs[path[i]].localName>> \o ScopePathNames(path, i + 1)

\* The full name addScopedTypeInternal gives a type of this local name.
ScopedFullName(localName) ==
    FQ(mPackage.package, mPackage.version,
       ScopePathNames(mScopePath, 2) \o <<localName>>)

\* scope() on the empty path fails its CHECK; on the wrapped vector it
\* returns what is no scope, and addType on that is undefined.
\* The body of addScopedTypeInternal for type t, which is objs[t] or, for a
\* type the caller has just allocated, the new object obj (t = Len(objs) + 1).
\* A new object that the scope rejects is referenced by nothing and is not
\* kept in objs; "last" holds the local name of the type (arg) and the full
\* name the call left it with (name).
AddScopedTypeInternal(t, obj, op) ==
    IF mScopePath = <<>>
    THEN /\ aborted' = TRUE
         /\ last' = Call(op, FALSE, FQ(<<>>, "", <<obj.localName>>), t,
                         obj.fullName, "check")
         /\ UNCHANGED <<objs, mDefinedTypesByFullName>>
    ELSE IF mScopePath = Wrapped
    THEN \E outcome \in UndefinedOutcomes :
            /\ aborted' = (outcome = "fault")
            /\ last' = Call(op, FALSE, FQ(<<>>, "", <<obj.localName>>), t,
                            obj.fullName, "undefined")
            /\ UNCHANGED <<objs, mDefinedTypesByFullName>>
    ELSE LET s == ScopeOf(mScopePath)
             os == IF t > Len(objs) THEN Append(objs, obj) ELSE objs
             fqName == ScopedFullName(obj.localName)
         IN  IF ~ScopeCanAdd(s, obj.localName)
             THEN /\ last' = Call(op, FALSE, FQ(<<>>, "", <<obj.localName>>), t,
                                  obj.fullName, "none")
                  /\ UNCHANGED <<objs, mDefinedTypesByFullName, aborted>>
             ELSE /\ objs' = [os EXCEPT ![s].types = Append(@, t),
                                        ![t].fullName = fqName]
                  /\ mDefinedTypesByFullName' =
                        [k \in DOMAIN mDefinedTypesByFullName \cup {fqName} |->
                            IF k = fqName THEN t ELSE mDefinedTypesByFullName[k]]
                  /\ last' = Call(op, TRUE, FQ(<<>>, "", <<obj.localName>>), t,
                                  fqName, "none")
                  /\ UNCHANGED aborted

\* A container that was entered and left and is not yet in any scope.
PendingContainers ==
    {c \in 2..Len(objs) :
        /\ objs[c].kind \in ContainerKinds
        /\ objs[c].fullName = NoFQName
        /\ \A i \in 1..Len(mScopePath) : mScopePath[i] # c
        /\ \A s \in 1..Len(objs) : \A i \in 1..Len(objs[s].types) : objs[s].types[i] # c}

\* addScopedType of a container the parser has just left.
AddScopedContainer(c) ==
    /\ ~aborted
    /\ c \in PendingContainers
    /\ AddScopedTypeInternal(c, objs[c], "addScopedType")
    /\ UNCHANGED <<backendVars, scopeCalls, mPackage, mScopePath, mImportedASTs, mImportedNames,
                   mImportedNamesForJava>>

\* addScopedType of a new leaf type (an enum).
AddScopedType(localName) ==
    /\ ~aborted
    /\ AddScopedTypeInternal(Len(objs) + 1, NewObj("EnumType", localName, 0),
                             "addScopedType")
    /\ UNCHANGED <<backendVars, scopeCalls, mPackage, mScopePath, mImportedASTs, mImportedNames,
                   mImportedNamesForJava>>

\* The types a typedef may name: the types of this AST that are in a scope,
\* the types of the imported ASTs, a scalar.
TypeDefTargets ==
    {t \in 2..Len(objs) : objs[t].fullName # NoFQName}
    \cup UNION {{ASTTable[a].index[i] : i \in 1..Len(ASTTable[a].index)} :
                    a \in mImportedASTs}
    \cup {100}

\* addTypeDef wraps the type in a new TypeDef and adds that.
AddTypeDef(localName, type) ==
    /\ ~aborted
    /\ type \in TypeDefTargets
    /\ AddScopedTypeInternal(Len(objs) + 1, NewObj("TypeDef", localName, type),
                             "addTypeDef")
    /\ UNCHANGED <<backendVars, scopeCalls, mPackage, mScopePath, mImportedASTs, mImportedNames,
                   mImportedNamesForJava>>

(***************************************************************************)
(* The coordinator: parse and appendPackageInterfacesToSet.                *)
(***************************************************************************)
\* Coordinator::parse: the AST of this file, 0 when it cannot be parsed.
CoordinatorParse(fqName) ==
    LET hits == {a \in ASTIds : ASTTable[a].file = fqName}
    IN  IF hits = {} THEN 0 ELSE CHOOSE a \in hits : TRUE

\* A package the coordinator finds, with no interface file in it.
PkgE == <<"e">>

\* Coordinator::appendPackageInterfacesToSet, its status: OK for a package
\* the coordinator finds.
PackageStatus(fqName) ==
    IF fqName.version = "1.0" /\ fqName.package \in {PkgQ, PkgXQ, PkgP, PkgE}
    THEN "OK" ELSE "NAME_NOT_FOUND"

\* Coordinator::appendPackageInterfacesToSet: the files of the package, in
\* the order it lists them (none if the status is not OK).
\* q@1.0 lists a file IBroken that does not parse.
PackageInterfaces(fqName) ==
    IF fqName.package = PkgQ /\ fqName.version = "1.0"
    THEN <<FQ(PkgQ, "1.0", <<"IQ">>), FQ(PkgQ, "1.0", <<"IBroken">>)>>
    ELSE IF fqName.package = PkgXQ /\ fqName.version = "1.0"
    THEN <<FQ(PkgXQ, "1.0", <<"IQ">>)>>
    ELSE IF fqName.package = PkgP /\ fqName.version = "1.0"
    THEN <<FQ(PkgP, "1.0", <<"types">>)>>
    ELSE <<>>

(***************************************************************************)
(* AST::addImport                                                          *)
(***************************************************************************)
ImportInputs ==
    {FQ(<<>>, "", <<"types">>), FQ(PkgQ, "1.0", <<"types">>),
     FQ(PkgQ, "1.0", <<"IQ">>), FQ(PkgQ, "1.0", <<>>), FQ(PkgXQ, "1.0", <<>>),
     FQ(<<"z">>, "1.0", <<"IZ">>), FQ(PkgE, "1.0", <<>>), FQ(<<"z">>, "1.0", <<>>)}

RECURSIVE ParseAll(_, _, _)
\* The loop over packageInterfaces from index i: the import set it leaves
\* and whether every parse succeeded (it returns at the first that fails).
ParseAll(list, i, set) ==
    IF i > Len(list) THEN [set |-> set, ok |-> TRUE]
    ELSE LET ast == CoordinatorParse(list[i])
         IN  IF ast = 0 THEN [set |-> set, ok |-> FALSE]
             ELSE ParseAll(list, i + 1, set \cup {ast})

\* addImport as it would be if it turned away a name of this AST's own
\* package and version.
AddImportRejectsOwn(import) ==
    LET fqName == ApplyDefaults(import, mPackage.package, mPackage.version)
        own == /\ fqName.package = mPackage.package
               /\ fqName.version = mPackage.version
        importAST == CoordinatorParse(fqName)
    IN  IF own \/ (fqName.names # <<>> /\ importAST = 0)
        THEN [set |-> mImportedASTs, ok |-> FALSE, fqName |-> fqName]
        ELSE IF fqName.names # <<>>
        THEN [set |-> mImportedASTs \cup {importAST}, ok |-> TRUE,
              fqName |-> fqName]
        ELSE IF PackageStatus(fqName) # "OK"
        THEN [set |-> mImportedASTs, ok |-> FALSE, fqName |-> fqName]
        ELSE ParseAll(PackageInterfaces(fqName), 1, mImportedASTs)
               @@ [fqName |-> fqName]

\* addImport as it would be if it went on after a file that does not parse
\* and returned true.
AddImportIgnoresParse(import) ==
    LET fqName == ApplyDefaults(import, mPackage.package, mPackage.version)
        asked == IF fqName.names = <<>> THEN PackageInterfaces(fqName)
                 ELSE <<fqName>>
    IN  [set |-> mImportedASTs
                   \cup ({CoordinatorParse(asked[i]) : i \in 1..Len(asked)} \ {0}),
         ok |-> TRUE, fqName |-> fqName]

\* The import set and the result of addImport(import).
AddImportResult(import) ==
    LET fqName == ApplyDefaults(import, mPackage.package, mPackage.version)
    IN  IF fqName.names = <<>>
        THEN LET packageInterfaces == PackageInterfaces(fqName)
             IN  IF PackageStatus(fqName) # "OK"
                 THEN [set |-> mImportedASTs, ok |-> FALSE, fqName |-> fqName]
                 ELSE ParseAll(packageInterfaces, 1, mImportedASTs)
                        @@ [fqName |-> fqName]
        ELSE LET importAST == CoordinatorParse(fqName)
             IN  IF importAST = 0
                 THEN [set |-> mImportedASTs, ok |-> FALSE, fqName |-> fqName]
                 ELSE [set |-> mImportedASTs \cup {importAST}, ok |-> TRUE,
                       fqName |-> fqName]

AddImport(import) ==
    LET r == AddImportResult(import)
    IN  /\ ~aborted
        /\ Cardinality(r.set) <= MaxImports
        /\ mImportedASTs' = r.set
        /\ last' = Call("addImport", r.ok, r.fqName, 0, import, "none")
        /\ UNCHANGED <<backendVars, scopeCalls, mPackage, objs, mScopePath, mDefinedTypesByFullName,
                       mImportedNames, mImportedNamesForJava, aborted>>

(***************************************************************************)
(* AST::findDefinedType, AST::lookupType                                   *)
(***************************************************************************)
RECURSIVE FindFrom(_, _, _)
\* The scan of an imported AST's index from position i: the first entry
\* whose key ends with fqName, 0 if none does.
FindFrom(index, i, fqName) ==
    IF i > Len(index) THEN 0
    ELSE IF EndsWith(ImportedTypeTable[index[i]].fullName, fqName) THEN index[i]
    ELSE FindFrom(index, i + 1, fqName)

\* findDefinedType of imported AST a (the key is the type's fullName).
FindDefinedType(a, fqName) == FindFrom(ASTTable[a].index, 1, fqName)

\* A single "if" in place of the "while": one typedef is looked through.
ResolveOneTypeDef(t) ==
    IF IsTypeDef(t) THEN TypeRec(t).referencedType ELSE t

RECURSIVE ResolveTypeDefs(_)
\* while (type->isTypeDef()) type = referencedType();
ResolveTypeDefs(t) ==
    IF IsTypeDef(t) THEN ResolveTypeDefs(TypeRec(t).referencedType) ELSE t

RECURSIVE LookupLocalFromRoot(_, _)
\* The loop run from the root scope inward: the outermost scope's match.
LookupLocalFromRoot(i, fqName) ==
    IF i = 0 THEN 0
    ELSE IF LookupLocalFromRoot(i - 1, fqName) # 0
    THEN LookupLocalFromRoot(i - 1, fqName)
    ELSE ScopeLookupType(mScopePath[i], fqName)

\* The loop over mScopePath left out: no scope is asked.
LookupLocalSkipped(i, fqName) == 0

RECURSIVE LookupLocal(_, _)
\* The loop over mScopePath from index i down to 1: the first scope's match.
LookupLocal(i, fqName) ==
    IF i = 0 THEN 0
    ELSE IF ScopeLookupType(mScopePath[i], fqName) # 0
    THEN ScopeLookupType(mScopePath[i], fqName)
    ELSE LookupLocal(i - 1, fqName)

\* The interfaces the second loop over mImportedASTs may leave in
\* resolvedType: each imported AST's match for ifc that is an interface.  The
\* loop keeps the last one in the set's (address) order.
InterfaceMatches(ifc) ==
    {m \in {FindDefinedType(a, ifc) : a \in mImportedASTs} :
        m # 0 /\ IsInterface(m)}

\* The include target a resolution through the imports records, given the
\* matched name, the type the typedefs resolve to, and the interface (0 for
\* none) the second loop found.
IncludeTarget(resolvedName, resolvedType, ifcType) ==
    IF IsInterface(resolvedType) THEN TypeRec(resolvedType).fullName
    ELSE IF ifcType # 0 THEN TypeRec(ifcType).fullName
    ELSE FQ(resolvedName.package, resolvedName.version, <<"types">>)

\* The Java set gaining the resolved type's own name, whether or not an
\* interface that encloses it was found.
JavaTargetOwnName(resolvedType, ifcType) ==
    IF IsNamedType(resolvedType) /\ ~IsTypeDef(resolvedType)
    THEN {TypeRec(resolvedType).fullName}
    ELSE {}

\* What the Java set gains.
JavaTarget(resolvedType, ifcType) ==
    IF IsInterface(resolvedType) THEN {TypeRec(resolvedType).fullName}
    ELSE IF ifcType # 0 THEN {TypeRec(ifcType).fullName}
    ELSE IF IsNamedType(resolvedType) /\ ~IsTypeDef(resolvedType)
    THEN {TypeRec(resolvedType).fullName}
    ELSE {}

LookupInputs ==
    {FQ(<<>>, "", <<"Bar">>), FQ(<<>>, "", <<"IQ">>), FQ(<<>>, "", <<"Tag">>),
     FQ(<<>>, "", <<"Alias">>), FQ(<<>>, "", <<"Alias2">>),
     FQ(<<>>, "", <<"MQDescriptor">>), FQ(<<>>, "", <<"Nope">>),
     FQ(PkgQ, "1.0", <<"IQ">>), FQ(PkgQ, "1.0", <<>>)}

\* A plain identifier: neither package nor version.
IsPlain(fqName) == fqName.package = <<>> /\ fqName.version = ""

\* The first loop as if the predefined name were tested before it: no
\* imported AST matches the unqualified MQDescriptor.
MatchingASTsPredefinedFirst(fqName) ==
    IF fqName.package = <<>> /\ fqName.version = ""
       /\ fqName.names = <<"MQDescriptor">>
    THEN {}
    ELSE {a \in mImportedASTs : FindDefinedType(a, fqName) # 0}

\* The imported ASTs whose findDefinedType finds a match.
MatchingASTs(fqName) == {a \in mImportedASTs : FindDefinedType(a, fqName) # 0}

\* The first loop without its test of resolvedType: a later match is taken.
SecondMatchIgnored(matching) == FALSE

\* The first loop over mImportedASTs meets a match with resolvedType set.
SecondMatch(matching) == Cardinality(matching) > 1

\* The test of the name left out: every unmatched plain name is predefined.
IsAnyPlainName(fqName) == IsPlain(fqName)

\* No match, and the unqualified name MQDescriptor.
IsMQDescriptor(fqName) == IsPlain(fqName) /\ fqName.names = <<"MQDescriptor">>

LookupType(fqName) ==
    LET bare == IsPlain(fqName)
        local == IF bare THEN LookupLocal(Len(mScopePath), fqName) ELSE 0
        matching == MatchingASTs(fqName)
        unchanged == UNCHANGED <<backendVars, scopeCalls, mPackage, objs, mScopePath, mDefinedTypesByFullName,
                                 mImportedASTs>>
    IN  /\ ~aborted
        /\ unchanged
        /\ IF fqName.names = <<>>
           THEN \* a package and version given: NULL
                /\ last' = Call("lookupType", FALSE, fqName, 0, NoFQName, "noname")
                /\ UNCHANGED <<mImportedNames, mImportedNamesForJava, aborted>>
           ELSE IF local # 0
           THEN \* found on the scope path
                /\ last' = Call("lookupType", TRUE, fqName, ResolveTypeDefs(local),
                                TypeRec(local).fullName, "scope")
                /\ UNCHANGED <<mImportedNames, mImportedNamesForJava, aborted>>
           ELSE IF SecondMatch(matching)
           THEN \* a second imported AST matches: NULL
                /\ last' = Call("lookupType", FALSE, fqName, 0, NoFQName, "ambiguous")
                /\ UNCHANGED <<mImportedNames, mImportedNamesForJava, aborted>>
           ELSE IF matching = {} /\ IsMQDescriptor(fqName)
           THEN /\ last' = Call("lookupType", TRUE, fqName, 99, NoFQName, "predefined")
                /\ UNCHANGED <<mImportedNames, mImportedNamesForJava, aborted>>
           ELSE IF matching = {}
           THEN \* returnedType is null and ref() is called on it: the call
                \* either hands the null pointer back or faults
                /\ \E fault \in BOOLEAN :
                      /\ aborted' = fault
                      /\ last' = Call("lookupType", FALSE, fqName, 0, NoFQName,
                                      "undefined")
                /\ UNCHANGED <<mImportedNames, mImportedNamesForJava>>
           ELSE LET match == FindDefinedType(CHOOSE a \in matching : TRUE, fqName)
                    resolvedName == TypeRec(match).fullName
                    resolvedType == ResolveTypeDefs(match)
                    ifc == FQ(resolvedName.package, resolvedName.version,
                              <<resolvedName.names[1]>>)
                    found == IF IsInterface(resolvedType) THEN {}
                             ELSE InterfaceMatches(ifc)
                IN  \E ifcType \in (IF found = {} THEN {0} ELSE found) :
                      /\ mImportedNames' = mImportedNames \cup
                            {IncludeTarget(resolvedName, resolvedType, ifcType)}
                      /\ mImportedNamesForJava' = mImportedNamesForJava \cup
                            JavaTarget(resolvedType, ifcType)
                      /\ Cardinality(mImportedNames') <= MaxNames
                      /\ Cardinality(mImportedNamesForJava') <= MaxNames
                      /\ last' = Call("lookupType", TRUE, fqName, resolvedType,
                                      resolvedName, "import")
                      /\ UNCHANGED aborted

(***************************************************************************)
(* The calls in the order the parser makes them: the package statement,    *)
(* the imports, then the declarations, in which a container is entered,    *)
(* left and added to its parent at once, a typedef names the type a lookup *)
(* has just returned, and the first call that fails ends the parse.        *)
(***************************************************************************)
InBody ==
    /\ last.ok
    /\ last.op # "init"
    /\ PendingContainers = {}

Next ==
    \/ /\ last.op = "init"
       /\ \E package \in PackageInputs : SetPackage(package)
    \/ /\ last.op \in {"setPackage", "addImport"}
       /\ last.ok
       /\ \E import \in ImportInputs : AddImport(import)
    \/ /\ InBody
       /\ Len(objs) < MaxObjs
       /\ \E c \in {x \in ContainerInputs : x[1] = "Interface"} : EnterScope(c[1], c[2])
    \/ /\ InBody
       /\ Len(mScopePath) > 1
       /\ LeaveScope
    \/ /\ last.ok
       /\ \E c \in 2..MaxObjs : AddScopedContainer(c)
    \/ /\ InBody
       /\ Len(objs) < MaxObjs
       /\ \E localName \in LocalNames : AddScopedType(localName)
    \/ /\ InBody
       /\ Len(objs) < MaxObjs
       /\ last.op = "lookupType"
       /\ \E localName \in LocalNames : AddTypeDef(localName, last.obj)
    \/ /\ InBody
       /\ \E fqName \in LookupInputs : LookupType(fqName)

Spec == Init /\ [][Next]_vars

(***************************************************************************)
(* The declarations of a file without imports, in the parser's order: the  *)
(* package statement, then containers entered, filled, left and added to   *)
(* their parent, enums, and typedefs of a scalar or of a declared type.    *)
(* The parse ends at the first call that fails.                            *)
(***************************************************************************)
NextDecls ==
    \/ /\ last.op = "init"
       /\ \E package \in PackageInputs : SetPackage(package)
    \/ /\ InBody
       /\ Len(objs) < MaxDeclObjs
       /\ \E c \in ContainerInputs : EnterScope(c[1], c[2])
    \/ /\ InBody
       /\ Len(mScopePath) > 1
       /\ LeaveScope
    \/ /\ last.ok
       /\ \E c \in 2..MaxDeclObjs : AddScopedContainer(c)
    \/ /\ InBody
       /\ Len(objs) < MaxDeclObjs
       /\ \E localName \in LocalNames : AddScopedType(localName)
    \/ /\ InBody
       /\ Len(objs) < MaxDeclObjs
       /\ \E localName \in LocalNames, type \in 2..MaxDeclObjs \cup {100} :
             AddTypeDef(localName, type)

SpecDecls == Init /\ [][NextDecls]_vars

(***************************************************************************)
(* The scope calls of a caller that does not keep enterScope and           *)
(* leaveScope balanced: after the package statement any of enterScope,     *)
(* leaveScope, addScopedType and addTypeDef, in any order.                 *)
(***************************************************************************)
NextScopes ==
    \/ /\ last.op = "init"
       /\ \E package \in PackageInputs : SetPackage(package)
    \/ /\ last.op # "init"
       /\ Len(objs) < MaxDeclObjs
       /\ Len(scopeCalls) < MaxScopeCalls
       /\ \E c \in ContainerInputs : EnterScope(c[1], c[2])
    \/ /\ last.op # "init"
       /\ Len(scopeCalls) < MaxScopeCalls
       /\ LeaveScope
    \/ /\ last.op # "init"
       /\ \E c \in 2..MaxDeclObjs : AddScopedContainer(c)
    \/ /\ last.op # "init"
       /\ Len(objs) < MaxDeclObjs
       /\ \E localName \in LocalNames : AddScopedType(localName)
    \/ /\ last.op # "init"
       /\ Len(objs) < MaxDeclObjs
       /\ \E localName \in LocalNames : AddTypeDef(localName, 100)

SpecScopes == Init /\ [][NextScopes]_vars

(***************************************************************************)
(* AST::generateCpp: the six generators, each called while err is OK.      *)
(***************************************************************************)
\* AST::isInterface: the root scope holds a single type, an interface.
ASTIsInterface == Len(objs[1].types) = 1 /\ IsInterface(objs[1].types[1])

\* The values errno may have after a failed fopen.
ErrnoValues == {"EACCES", "ENOSPC"}

\* What a generator may do: open no file and return OK at once (skip), fail
\* to open its file (-errno), open it and fail while emitting (the status of
\* the emitter it calls), or open it and return OK.
Outcome(status, opened) == [status |-> status, opened |-> opened]

OpenFailures == {Outcome("-" \o e, FALSE) : e \in ErrnoValues}

\* types(.h) or the interface's header: fopen, emitTypeDeclarations,
\* emitGlobalTypeDeclarations.
GenerateInterfaceHeader ==
    OpenFailures \cup {Outcome("UNKNOWN_ERROR", TRUE), Outcome("OK", TRUE)}

\* types.hal does not get a stub header; no emitter that can fail.
GenerateStubHeader ==
    IF ~ASTIsInterface THEN {Outcome("OK", FALSE)}
    ELSE OpenFailures \cup {Outcome("OK", TRUE)}

\* hwtypes(.h) or the interface's: fopen, emitGlobalHwDeclarations.
GenerateHwBinderHeader ==
    OpenFailures \cup {Outcome("UNKNOWN_ERROR", TRUE), Outcome("OK", TRUE)}

\* types.hal does not get a proxy header; the method generator returns OK.
GenerateProxyHeader ==
    IF ~ASTIsInterface THEN {Outcome("OK", FALSE)}
    ELSE OpenFailures \cup {Outcome("OK", TRUE)}

\* types.cpp or <Base>All.cpp: fopen, then the type, interface, proxy, stub
\* and pass-through sources.
GenerateAllSource ==
    OpenFailures \cup {Outcome("UNKNOWN_ERROR", TRUE), Outcome("OK", TRUE)}

\* types.hal does not get a pass-through header; generatePassthroughMethod.
GeneratePassthroughHeader ==
    IF ~ASTIsInterface THEN {Outcome("OK", FALSE)}
    ELSE OpenFailures \cup {Outcome("UNKNOWN_ERROR", TRUE), Outcome("OK", TRUE)}

\* The calls without their "if (err == OK)": every generator is called.
ProceedsAlways(e) == TRUE

\* if (err == OK)
Proceeds(e) == e = "OK"

\* The generators in the order of the calls in generateCpp.
Generators ==
    <<[name |-> "generateInterfaceHeader", outcomes |-> GenerateInterfaceHeader],
      [name |-> "generateStubHeader", outcomes |-> GenerateStubHeader],
      [name |-> "generateHwBinderHeader", outcomes |-> GenerateHwBinderHeader],
      [name |-> "generateProxyHeader", outcomes |-> GenerateProxyHeader],
      [name |-> "generateAllSource", outcomes |-> GenerateAllSource],
      [name |-> "generatePassthroughHeader", outcomes |-> GeneratePassthroughHeader]>>

OutputPaths == {"out/", "gen/"}

\* generateCpp is entered.
GenerateCpp(path) ==
    /\ ~aborted
    /\ genPc = 0
    /\ outputPath' = path
    /\ genPc' = 1
    /\ UNCHANGED <<astVars, emitVars, err, ran, files, returned>>

\* The k-th call: the first unconditionally, the others if err is OK;
\* a call that is passed over leaves err as it is.
CallGenerator(k) ==
    /\ genPc = k
    /\ k <= Len(Generators)
    /\ genPc' = k + 1
    /\ IF k = 1 \/ Proceeds(err)
       THEN \E o \in Generators[k].outcomes :
               /\ err' = o.status
               /\ ran' = Append(ran, [name |-> Generators[k].name,
                                      status |-> o.status])
               /\ files' = IF o.opened
                           THEN files \cup {<<outputPath, Generators[k].name>>}
                           ELSE files
       ELSE UNCHANGED <<err, ran, files>>
    /\ UNCHANGED <<astVars, emitVars, outputPath, returned>>

\* return err;
ReturnErr ==
    /\ genPc = Len(Generators) + 1
    /\ returned = "none"
    /\ returned' = err
    /\ UNCHANGED <<astVars, emitVars, outputPath, genPc, err, ran, files>>

\* The ASTs generateCpp is called on: a types file (an enum) and an
\* interface file, parsed without error.
ParsedFiles ==
    {[root |-> [NewObj("Scope", "", 0) EXCEPT !.types = <<2>>],
      type |-> [NewObj(kind, "T", 0) EXCEPT
                   !.fullName = FQ(PkgP, "1.0", <<"T">>)]] :
        kind \in {"EnumType", "Interface"}}

InitGen ==
    /\ InitBackend
    /\ mPackage = FQ(PkgP, "1.0", <<>>)
    /\ \E f \in ParsedFiles : objs = <<f.root, f.type>>
    /\ mScopePath = <<1>>
    /\ mDefinedTypesByFullName = [k \in {FQ(PkgP, "1.0", <<"T">>)} |-> 2]
    /\ mImportedASTs = {}
    /\ mImportedNames = {}
    /\ mImportedNamesForJava = {}
    /\ aborted = FALSE
    /\ scopeCalls = IF objs[2].kind = "Interface" THEN <<2, 0>> ELSE <<>>
    /\ last = [op |-> "addScopedType", ok |-> TRUE, arg |-> FQ(<<>>, "", <<"T">>),
               obj |-> 2, name |-> FQ(PkgP, "1.0", <<"T">>), via |-> "none",
               pre |-> [names |-> {}, java |-> {}, index |-> [k \in {} |-> 0],
                        imports |-> {}]]

NextGen ==
    \/ \E path \in OutputPaths : GenerateCpp(path)
    \/ \E k \in 1..Len(Generators) : CallGenerator(k)
    \/ ReturnErr

SpecGen == InitGen /\ [][NextGen]_vars

(***************************************************************************)
(* Interfaces and methods as the C++ back end sees them.  A method has a   *)
(* name, arguments and results (typed variables), a serial id, and is      *)
(* oneway or not; a method reserved by HIDL may carry its own C++ body for *)
(* the proxy (IMPL_PROXY) or for the stub (IMPL_STUB).                     *)
(***************************************************************************)
\* A typed variable: its type is an interface or not, and needs a second
\* pass to resolve references (needsResolveReferences) or not.
TypedVar(name, isInterface, needsResolveReferences) ==
    [name |-> name, isInterface |-> isInterface,
     needsResolveReferences |-> needsResolveReferences]

Method(name, serialId, args, results, oneway, hidlReserved, overrides) ==
    [name |-> name, serialId |-> serialId, args |-> args, results |-> results,
     oneway |-> oneway, hidlReserved |-> hidlReserved, overrides |-> overrides]

\* Method::canElideCallback: the single result, if the method has exactly
\* one and it is a scalar (here: neither an interface nor in need of a
\* second pass); <<>> stands for the null pointer.
CanElideCallback(method) ==
    IF /\ Len(method.results) = 1
       /\ ~method.results[1].isInterface
       /\ ~method.results[1].needsResolveReferences
    THEN <<method.results[1]>>
    ELSE <<>>

\* The interfaces of the model: the root of every chain with three reserved
\* methods, a parent with one method, a child with four: m2 takes an
\* interface and returns two results through a callback, m3 is one-way, m4
\* has neither arguments nor results, m5 returns an interface.
InterfaceTable ==
    [IBase |->
        [fullName |-> "android.hidl.base@1.0::IBase", superType |-> "none",
         methods |->
            <<Method("interfaceChain", 256, <<>>,
                     <<TypedVar("descriptors", FALSE, TRUE)>>, FALSE, TRUE, {}),
              Method("linkToDeath", 257, <<TypedVar("recipient", FALSE, FALSE)>>,
                     <<TypedVar("success", FALSE, FALSE)>>, FALSE, TRUE,
                     {"IMPL_PROXY"}),
              Method("setHALInstrumentation", 258, <<>>, <<>>, TRUE, TRUE,
                     {"IMPL_STUB"})>>],
     IParent |->
        [fullName |-> "p@1.0::IParent", superType |-> "IBase",
         methods |->
            <<Method("m1", 1, <<TypedVar("x", FALSE, FALSE)>>,
                     <<TypedVar("r", FALSE, FALSE)>>, FALSE, FALSE, {})>>],
     IChild |->
        [fullName |-> "p@1.0::IChild", superType |-> "IParent",
         methods |->
            <<Method("m2", 2, <<TypedVar("cb", TRUE, FALSE),
                                TypedVar("v", FALSE, TRUE)>>,
                     <<TypedVar("s", FALSE, TRUE), TypedVar("t", FALSE, FALSE)>>,
                     FALSE, FALSE, {}),
              Method("m3", 3, <<TypedVar("x", FALSE, FALSE)>>, <<>>, TRUE,
                     FALSE, {}),
              Method("m4", 4, <<>>, <<>>, FALSE, FALSE, {}),
              Method("m5", 5, <<TypedVar("a", FALSE, TRUE),
                                TypedVar("b", FALSE, FALSE)>>,
                     <<TypedVar("ifc", TRUE, FALSE)>>, FALSE, FALSE, {})>>]]

InterfaceNames == DOMAIN InterfaceTable

RECURSIVE AllMethodsFromRoot(_)
\* Interface::allMethodsFromRoot: the methods of the chain, the root's
\* first, each with the interface that defines it.
AllMethodsFromRoot(iface) ==
    (IF InterfaceTable[iface].superType = "none" THEN <<>>
     ELSE AllMethodsFromRoot(InterfaceTable[iface].superType))
    \o [i \in 1..Len(InterfaceTable[iface].methods) |->
           [method |-> InterfaceTable[iface].methods[i], interface |-> iface]]

\* <interface>::descriptor
Descriptor(iface) == InterfaceTable[iface].fullName

(***************************************************************************)
(* The text the generators write, as a sequence of statements.  A          *)
(* statement has an operation, the object it acts on, its operands, what   *)
(* it does on failure ("goto" _hidl_error, "break" out of the case,        *)
(* "ignore", "return") and a transaction code.                             *)
(***************************************************************************)
Stmt(op, obj, args, mode, code) ==
    [op |-> op, obj |-> obj, args |-> args, mode |-> mode, code |-> code]

RECURSIVE Flatten(_)
\* The concatenation of a sequence of sequences.
Flatten(ss) == IF ss = <<>> THEN <<>> ELSE ss[1] \o Flatten(Tail(ss))

\* The names of typed variables, with the prefix the code gives them.
VarNames(vs, prefix) == [i \in 1..Len(vs) |-> prefix \o vs[i].name]

\* generateCheckNonNull: if (<nonNull> == nullptr) return EX_ILLEGAL_ARGUMENT
GenerateCheckNonNull(nonNull) ==
    <<Stmt("ifNullReturn", nonNull, <<"EX_ILLEGAL_ARGUMENT">>, "return", 0)>>

\* generateCppAtraceCall and generateCppInstrumentationCall for an event.
GenerateCppInstrumentationCall(event, method) ==
    <<Stmt(IF event \in {"SERVER_API_ENTRY", "CLIENT_API_ENTRY", "PASSTHROUGH_ENTRY"}
           THEN "atrace_begin" ELSE "atrace_end", "ATRACE_TAG_HAL", <<>>, "", 0),
      Stmt("instrumentation", event,
           IF event \in {"SERVER_API_ENTRY", "CLIENT_API_ENTRY", "PASSTHROUGH_ENTRY"}
           THEN VarNames(method.args, "")
           ELSE VarNames(method.results, "_hidl_out_"), "", 0)>>

\* emitCppReaderWriter: the type's reader or writer on the parcel.
EmitCppReaderWriter(parcelObj, arg, isReader, mode, addPrefixToName) ==
    <<Stmt(IF isReader THEN "read" ELSE "write", parcelObj,
           <<(IF addPrefixToName THEN "_hidl_out_" ELSE "") \o arg.name>>, mode, 0)>>

\* emitCppResolveReferences: only for a type that needs the second pass.
EmitCppResolveReferences(parcelObj, arg, isReader, mode, addPrefixToName) ==
    IF arg.needsResolveReferences
    THEN <<Stmt("resolve", parcelObj,
                <<(IF addPrefixToName THEN "_hidl_out_" ELSE "") \o arg.name>>,
                mode, 0)>>
    ELSE <<>>

\* The writer of each argument followed at once by its reference resolver.
ProxyWriteArgsInterleaved(method) ==
    Flatten([i \in 1..Len(method.args) |->
                EmitCppReaderWriter("_hidl_data", method.args[i], FALSE, "goto", FALSE)
                \o EmitCppResolveReferences("_hidl_data", method.args[i], FALSE,
                                            "goto", FALSE)])

\* The writers of the arguments (first pass), then their reference
\* resolvers (second pass), on the data parcel.
ProxyWriteArgs(method) ==
    Flatten([i \in 1..Len(method.args) |->
                EmitCppReaderWriter("_hidl_data", method.args[i], FALSE, "goto", FALSE)])
    \o Flatten([i \in 1..Len(method.args) |->
                EmitCppResolveReferences("_hidl_data", method.args[i], FALSE,
                                         "goto", FALSE)])

\* The request with the token written after the arguments.
ProxyRequestArgsFirst(method, superInterface) ==
    ProxyWriteArgs(method)
    \o <<Stmt("writeInterfaceToken", "_hidl_data", <<Descriptor(superInterface)>>,
              "goto", 0)>>

\* _hidl_err = _hidl_data.writeInterfaceToken(<superInterface>::descriptor);
\* if (_hidl_err != OK) goto _hidl_error; then the arguments.
ProxyRequest(method, superInterface) ==
    <<Stmt("writeInterfaceToken", "_hidl_data", <<Descriptor(superInterface)>>,
           "goto", 0)>>
    \o ProxyWriteArgs(method)

\* The transaction without the flag, whatever the method.
ProxyTransactNoFlag(method) ==
    <<Stmt("transact", "remote", <<"_hidl_data", "_hidl_reply">>, "goto",
           method.serialId)>>

\* _hidl_err = remote()->transact(<serialId>, _hidl_data, &_hidl_reply
\* [, FLAG_ONEWAY]); if (_hidl_err != OK) goto _hidl_error;
ProxyTransact(method) ==
    <<Stmt("transact", "remote", <<"_hidl_data", "_hidl_reply">>
               \o (IF method.oneway THEN <<"FLAG_ONEWAY">> ELSE <<>>),
           "goto", method.serialId)>>

\* The reply with the callback invoked before the results are read.
ProxyReadReplyCallbackFirst(method) ==
    <<Stmt("readStatus", "_hidl_reply", <<"_hidl_status">>, "goto", 0),
      Stmt("ifNotOkReturn", "_hidl_status", <<>>, "return", 0)>>
    \o (IF method.results # <<>> /\ CanElideCallback(method) = <<>>
        THEN <<Stmt("callback", "_hidl_cb", VarNames(method.results, "_hidl_out_"),
                    "", 0)>>
        ELSE <<>>)
    \o Flatten([i \in 1..Len(method.results) |->
                   EmitCppReaderWriter("_hidl_reply", method.results[i], TRUE,
                                       "goto", TRUE)])
    \o Flatten([i \in 1..Len(method.results) |->
                   EmitCppResolveReferences("_hidl_reply", method.results[i], TRUE,
                                            "goto", TRUE)])

\* The reading of the reply: the status, the results (both passes), the
\* callback if the results are not elided.
ProxyReadReply(method) ==
    <<Stmt("readStatus", "_hidl_reply", <<"_hidl_status">>, "goto", 0),
      Stmt("ifNotOkReturn", "_hidl_status", <<>>, "return", 0)>>
    \o Flatten([i \in 1..Len(method.results) |->
                   EmitCppReaderWriter("_hidl_reply", method.results[i], TRUE,
                                       "goto", TRUE)])
    \o Flatten([i \in 1..Len(method.results) |->
                   EmitCppResolveReferences("_hidl_reply", method.results[i], TRUE,
                                            "goto", TRUE)])
    \o (IF method.results # <<>> /\ CanElideCallback(method) = <<>>
        THEN <<Stmt("callback", "_hidl_cb", VarNames(method.results, "_hidl_out_"),
                    "", 0)>>
        ELSE <<>>)

\* The reply read for a one-way method too.
ProxyReplyAlways(method) == ProxyReadReply(method)

\* if (!method->isOneway()) { ... }: a one-way method reads no reply.
ProxyReply(method) ==
    IF method.oneway THEN <<>> ELSE ProxyReadReply(method)

\* generateProxyMethodSource: the body of the proxy's method.
GenerateProxyMethodSource(method, superInterface) ==
    IF method.hidlReserved /\ "IMPL_PROXY" \in method.overrides
    THEN <<Stmt("cppImpl", "IMPL_PROXY", <<method.name>>, "", 0)>>
    ELSE (IF method.results # <<>> /\ CanElideCallback(method) = <<>>
          THEN GenerateCheckNonNull("_hidl_cb") ELSE <<>>)
         \o GenerateCppInstrumentationCall("CLIENT_API_ENTRY", method)
         \o ProxyRequest(method, superInterface)
         \o (IF \E i \in 1..Len(method.args) : method.args[i].isInterface
             THEN <<Stmt("startThreadPool", "ProcessState", <<>>, "", 0)>>
             ELSE <<>>)
         \o ProxyTransact(method)
         \o ProxyReply(method)
         \o GenerateCppInstrumentationCall("CLIENT_API_EXIT", method)
         \o <<Stmt("setFromStatusT", "_hidl_status", <<"_hidl_err">>, "", 0),
              Stmt("return", "Return",
                   VarNames(CanElideCallback(method), "_hidl_out_"), "", 0),
              Stmt("label", "_hidl_error", <<>>, "", 0),
              Stmt("setFromStatusT", "_hidl_status", <<"_hidl_err">>, "", 0),
              Stmt("return", "Return", <<"_hidl_status">>, "", 0)>>

\* generateProxySource: generateMethods with generateProxyMethodSource.
GenerateProxySource(iface) ==
    [i \in 1..Len(AllMethodsFromRoot(iface)) |->
        [method |-> AllMethodsFromRoot(iface)[i].method,
         interface |-> AllMethodsFromRoot(iface)[i].interface,
         body |-> GenerateProxyMethodSource(AllMethodsFromRoot(iface)[i].method,
                                            AllMethodsFromRoot(iface)[i].interface)]]

\* The readers of the arguments (first pass), then their reference
\* resolvers (second pass), on the data parcel; a failure breaks.
StubReadArgs(method) ==
    Flatten([i \in 1..Len(method.args) |->
                EmitCppReaderWriter("_hidl_data", method.args[i], TRUE, "break", FALSE)])
    \o Flatten([i \in 1..Len(method.args) |->
                EmitCppResolveReferences("_hidl_data", method.args[i], TRUE,
                                         "break", FALSE)])

\* The request with the arguments read before the token is checked.
StubRequestArgsFirst(iface, method) ==
    StubReadArgs(method)
    \o <<Stmt("enforceInterface", "_hidl_data", <<Descriptor(iface)>>, "break", 0)>>

\* if (!_hidl_data.enforceInterface(<iface>::descriptor)) {
\*     _hidl_err = BAD_TYPE; break; } then the arguments.
StubRequest(iface, method) ==
    <<Stmt("enforceInterface", "_hidl_data", <<Descriptor(iface)>>, "break", 0)>>
    \o StubReadArgs(method)

\* The reply with the OK status written after the results.
StubReplyStatusLast(method, results) ==
    Flatten([i \in 1..Len(results) |->
                EmitCppReaderWriter("_hidl_reply", results[i], FALSE, "ignore",
                                    TRUE)])
    \o Flatten([i \in 1..Len(results) |->
                   EmitCppResolveReferences("_hidl_reply", results[i], FALSE,
                                            "ignore", TRUE)])
    \o <<Stmt("writeStatusOk", "_hidl_reply", <<>>, "ignore", 0)>>
    \o GenerateCppInstrumentationCall("SERVER_API_EXIT", method)
    \o <<Stmt("transactCallback", "_hidl_cb", <<"_hidl_reply">>, "", 0)>>

\* What writes the reply: the OK status, the results (both passes, errors
\* ignored), the exit instrumentation, the transact callback.
StubReply(method, results) ==
    <<Stmt("writeStatusOk", "_hidl_reply", <<>>, "ignore", 0)>>
    \o Flatten([i \in 1..Len(results) |->
                   EmitCppReaderWriter("_hidl_reply", results[i], FALSE, "ignore",
                                       TRUE)])
    \o Flatten([i \in 1..Len(results) |->
                   EmitCppResolveReferences("_hidl_reply", results[i], FALSE,
                                            "ignore", TRUE)])
    \o GenerateCppInstrumentationCall("SERVER_API_EXIT", method)
    \o <<Stmt("transactCallback", "_hidl_cb", <<"_hidl_reply">>, "", 0)>>

\* The call and the reply with a callback that neither tests nor sets
\* _hidl_callbackCalled.
StubInvokeUnguarded(method) ==
    IF CanElideCallback(method) # <<>>
    THEN <<Stmt("callImpl", "_hidl_mImpl", VarNames(method.args, ""), "elided",
                method.serialId)>>
         \o StubReply(method, CanElideCallback(method))
    ELSE IF method.results # <<>>
    THEN <<Stmt("callImpl", "_hidl_mImpl", VarNames(method.args, ""), "callback",
                method.serialId),
           Stmt("lambda", "_hidl_cb", VarNames(method.results, "_hidl_out_"), "", 0)>>
         \o StubReply(method, method.results)
         \o <<Stmt("lambdaEnd", "_hidl_cb", <<>>, "", 0),
              Stmt("ifNotCalledFatal", "_hidl_callbackCalled", <<>>, "", 0)>>
    ELSE <<Stmt("callImpl", "_hidl_mImpl", VarNames(method.args, ""), "void",
                method.serialId)>>
         \o GenerateCppInstrumentationCall("SERVER_API_EXIT", method)
         \o <<Stmt("writeStatusOk", "_hidl_reply", <<>>, "ignore", 0)>>

\* The call of the implementation and the reply, in the three forms: the
\* result elided, results through a callback (the statements between
\* "lambda" and "lambdaEnd" are the callback's body), no result.
StubInvoke(method) ==
    IF CanElideCallback(method) # <<>>
    THEN <<Stmt("callImpl", "_hidl_mImpl", VarNames(method.args, ""), "elided",
                method.serialId)>>
         \o StubReply(method, CanElideCallback(method))
    ELSE IF method.results # <<>>
    THEN <<Stmt("callImpl", "_hidl_mImpl", VarNames(method.args, ""), "callback",
                method.serialId),
           Stmt("lambda", "_hidl_cb", VarNames(method.results, "_hidl_out_"), "", 0),
           Stmt("ifCalledFatal", "_hidl_callbackCalled", <<>>, "", 0)>>
         \o StubReply(method, method.results)
         \o <<Stmt("lambdaEnd", "_hidl_cb", <<>>, "", 0),
              Stmt("ifNotCalledFatal", "_hidl_callbackCalled", <<>>, "", 0)>>
    ELSE <<Stmt("callImpl", "_hidl_mImpl", VarNames(method.args, ""), "void",
                method.serialId)>>
         \o GenerateCppInstrumentationCall("SERVER_API_EXIT", method)
         \o <<Stmt("writeStatusOk", "_hidl_reply", <<>>, "ignore", 0)>>

\* generateStubSourceForMethod: the body of the method's case.
GenerateStubSourceForMethod(iface, method) ==
    IF method.hidlReserved /\ "IMPL_STUB" \in method.overrides
    THEN <<Stmt("cppImpl", "IMPL_STUB", <<method.name>>, "", 0),
           Stmt("break", "", <<>>, "", 0)>>
    ELSE StubRequest(iface, method)
         \o GenerateCppInstrumentationCall("SERVER_API_ENTRY", method)
         \o StubInvoke(method)
         \o <<Stmt("break", "", <<>>, "", 0)>>

\* The cases of onTransact's switch for the interface's own methods only.
GenerateStubSourceOwn(iface) ==
    [i \in 1..Len(InterfaceTable[iface].methods) |->
        [method |-> InterfaceTable[iface].methods[i],
         interface |-> iface,
         body |-> GenerateStubSourceForMethod(iface, InterfaceTable[iface].methods[i])]]

\* generateStubSource: the cases of onTransact's switch, one per method of
\* the chain, and its default case.
GenerateStubSource(iface) ==
    [i \in 1..Len(AllMethodsFromRoot(iface)) |->
        [method |-> AllMethodsFromRoot(iface)[i].method,
         interface |-> AllMethodsFromRoot(iface)[i].interface,
         body |-> GenerateStubSourceForMethod(AllMethodsFromRoot(iface)[i].interface,
                                              AllMethodsFromRoot(iface)[i].method)]]

\* default: return onTransact(_hidl_code, _hidl_data, _hidl_reply,
\*                            _hidl_flags, _hidl_cb);
StubDefaultCase ==
    <<Stmt("returnCall", "onTransact",
           <<"_hidl_code", "_hidl_data", "_hidl_reply", "_hidl_flags", "_hidl_cb">>,
           "return", 0)>>

(***************************************************************************)
(* The pass-through adapter Bs<interface>: generatePassthroughMethod for   *)
(* every method of the chain, generatePassthroughSource for the            *)
(* constructor and addOnewayTask.                                          *)
(***************************************************************************)
\* mOnewayQueue.setLimit(3000 /* similar limit to binderized */)
OnewayQueueLimit == 3000

\* wrapPassthroughArg: for a variable of interface type, the wrapped copy;
\* handleError runs if the wrapping yields null ("return": the method
\* returns EX_TRANSACTION_FAILED; "lambdaReturn": _hidl_error is set and the
\* callback returns).
WrapPassthroughArg(arg, addPrefixToName, mode) ==
    IF ~arg.isInterface THEN <<>>
    ELSE <<Stmt("wrap", (IF addPrefixToName THEN "_hidl_out_" ELSE "") \o arg.name,
                <<(IF addPrefixToName THEN "_hidl_out_wrapped_" ELSE "_hidl_wrapped_")
                     \o arg.name>>, mode, 0)>>

\* The names the implementation or the callback is called with: the wrapped
\* copy of a variable of interface type, the variable itself otherwise.
WrappedNames(vs, wrappedPrefix, prefix) ==
    [i \in 1..Len(vs) |->
        (IF vs[i].isInterface THEN wrappedPrefix ELSE prefix) \o vs[i].name]

\* mImpl-><method>(<args>[, callback]) and what follows it: with results
\* through a callback the exit hook, the wrapping of the results and the
\* caller's callback are the body of the callback handed to the
\* implementation; otherwise the exit hook follows the call.
PassthroughInvoke(method) ==
    IF method.results # <<>> /\ CanElideCallback(method) = <<>>
    THEN <<Stmt("callImpl", "mImpl", WrappedNames(method.args, "_hidl_wrapped_", ""),
                "callback", method.serialId),
           Stmt("lambda", "_hidl_cb", VarNames(method.results, "_hidl_out_"), "", 0)>>
         \o GenerateCppInstrumentationCall("PASSTHROUGH_EXIT", method)
         \o Flatten([i \in 1..Len(method.results) |->
                        WrapPassthroughArg(method.results[i], TRUE, "lambdaReturn")])
         \o <<Stmt("callback", "_hidl_cb",
                   WrappedNames(method.results, "_hidl_out_wrapped_", "_hidl_out_"),
                   "", 0),
              Stmt("lambdaEnd", "_hidl_cb", <<>>, "", 0)>>
    ELSE <<Stmt("callImpl", "mImpl", WrappedNames(method.args, "_hidl_wrapped_", ""),
                IF CanElideCallback(method) # <<>> THEN "elided" ELSE "void",
                method.serialId)>>
         \o GenerateCppInstrumentationCall("PASSTHROUGH_EXIT", method)

\* The call of a one-way method made like any other, on the caller's thread.
PassthroughTaskInline(method) == PassthroughInvoke(method)

\* auto _hidl_return = [addOnewayTask([...] { this->]mImpl-><method>(...)
\* [... });]: for a one-way method the call and the exit hook are the task
\* handed to addOnewayTask.
PassthroughTask(method) ==
    IF method.oneway
    THEN <<Stmt("addOnewayTask", "mOnewayQueue", <<>>, "", 0)>>
         \o PassthroughInvoke(method)
         \o <<Stmt("taskEnd", "mOnewayQueue", <<>>, "", 0)>>
    ELSE PassthroughInvoke(method)

\* generatePassthroughMethod: the body of the adapter's method.
GeneratePassthroughMethod(method) ==
    IF method.hidlReserved /\ "IMPL_PASSTHROUGH" \in method.overrides
    THEN <<Stmt("cppImpl", "IMPL_PASSTHROUGH", <<method.name>>, "", 0)>>
    ELSE (IF method.results # <<>> /\ CanElideCallback(method) = <<>>
          THEN GenerateCheckNonNull("_hidl_cb") ELSE <<>>)
         \o GenerateCppInstrumentationCall("PASSTHROUGH_ENTRY", method)
         \o Flatten([i \in 1..Len(method.args) |->
                        WrapPassthroughArg(method.args[i], FALSE, "return")])
         \o PassthroughTask(method)
         \o <<Stmt("returnHidlReturn", "_hidl_return", <<>>, "", 0)>>

\* generatePassthroughHeader: generateMethods with generatePassthroughMethod.
GeneratePassthroughMethods(iface) ==
    [i \in 1..Len(AllMethodsFromRoot(iface)) |->
        [method |-> AllMethodsFromRoot(iface)[i].method,
         interface |-> AllMethodsFromRoot(iface)[i].interface,
         body |-> GeneratePassthroughMethod(AllMethodsFromRoot(iface)[i].method)]]

(***************************************************************************)
(* The declarations of the headers: the methods the interface header and   *)
(* the proxy header declare, and the base classes of the stub class.       *)
(***************************************************************************)
\* Interface::isIBase: the interface is android.hidl.base@1.0::IBase.
IsIBase(iface) == InterfaceTable[iface].fullName = "android.hidl.base@1.0::IBase"

\* A declaration of a method: "override" or not, pure virtual ("= 0") or
\* with a body.
Declaration(method, interface, override, pure) ==
    [method |-> method, interface |-> interface, override |-> override,
     pure |-> pure]

\* generateMethods: the calls of its generator, one for every method of the
\* chain from the root, each with the interface that defines it.
GenerateMethods(iface) ==
    [i \in 1..Len(AllMethodsFromRoot(iface)) |->
        [method |-> AllMethodsFromRoot(iface)[i].method,
         superInterface |-> AllMethodsFromRoot(iface)[i].interface]]

\* generateInterfaceHeader: a virtual declaration for every method of
\* iface->methods(), with a body and (except in IBase) "override" if the
\* method is reserved, pure otherwise.
GenerateInterfaceHeaderMethods(iface) ==
    [i \in 1..Len(InterfaceTable[iface].methods) |->
        LET method == InterfaceTable[iface].methods[i]
        IN  Declaration(method, iface, method.hidlReserved /\ ~IsIBase(iface),
                        ~method.hidlReserved)]

\* The proxy header's method generator: the signature and " override;".
ProxyHeaderMethod(method, superInterface) ==
    Declaration(method, superInterface, TRUE, FALSE)

\* generateProxyHeader: generateMethods with the signature generator.
GenerateProxyHeaderMethods(iface) ==
    [i \in 1..Len(GenerateMethods(iface)) |->
        ProxyHeaderMethod(GenerateMethods(iface)[i].method,
                          GenerateMethods(iface)[i].superInterface)]

\* FQName::getInterfaceStubFqName: the stub class of an interface.
GetInterfaceStubName(iface) == "BnHw<" \o iface \o ">"

\* The stub class derived from the stub class of the super-interface.
GenerateStubHeaderBasesOfSuper(iface) ==
    IF IsIBase(iface)
    THEN <<"::android::hardware::BHwBinder", "::android::hardware::HidlInstrumentor">>
    ELSE <<GetInterfaceStubName(InterfaceTable[iface].superType)>>

\* generateStubHeader: the base classes of the stub class, the binder and
\* the instrumentor for IBase, the stub class of IBase (gIBaseFqName) for
\* every other interface.
GenerateStubHeaderBases(iface) ==
    IF IsIBase(iface)
    THEN <<"::android::hardware::BHwBinder", "::android::hardware::HidlInstrumentor">>
    ELSE <<GetInterfaceStubName("IBase")>>

\* TaskRunner::push on a queue that holds size tasks: refused when the
\* queue is at its limit.
QueuePush(size) == size < OnewayQueueLimit

\* The tasks mOnewayQueue may hold when a one-way call arrives.
QueueSizes == {0, OnewayQueueLimit - 1, OnewayQueueLimit}

(***************************************************************************)
(* The generated code at run time: a call of a proxy method, or a          *)
(* transaction that onTransact's switch dispatches to a case, run one      *)
(* statement at a time.  A parcel operation or a transaction may fail; the *)
(* remote side may answer with a status that is not OK; the implementation *)
(* calls the callback it is given as often as it likes.                    *)
(***************************************************************************)
\* Calls of the callback an implementation makes during one invocation.
MaxCallbackCalls == 2

\* generateCpp for an interface file: the headers get their declarations,
\* generateProxySource and generateStubSource (generateAllSource) and
\* generatePassthroughHeader write the bodies.
GenerateSource ==
    /\ ~aborted
    /\ rootInterface # "none"
    /\ proxySource = <<>>
    /\ proxySource' = GenerateProxySource(rootInterface)
    /\ stubSource' = GenerateStubSource(rootInterface)
    /\ passthroughSource' = GeneratePassthroughMethods(rootInterface)
    /\ headers' = [interface |-> GenerateInterfaceHeaderMethods(rootInterface),
                   proxy |-> GenerateProxyHeaderMethods(rootInterface),
                   stubBases |-> GenerateStubHeaderBases(rootInterface)]
    /\ UNCHANGED <<astVars, cppVars, rootInterface, svc, call, trace>>

\* A client calls the i-th method of the proxy, with a null callback or not
\* if the method takes one.
ProxyCall(i, cbIsNull) ==
    /\ ~aborted
    /\ proxySource # <<>>
    /\ call.pc = 0
    /\ i \in 1..Len(proxySource)
    /\ cbIsNull => (/\ proxySource[i].method.results # <<>>
                    /\ CanElideCallback(proxySource[i].method) = <<>>)
    /\ call' = [IdleCall EXCEPT !.side = "proxy", !.index = i, !.pc = 1,
                                !.cbIsNull = cbIsNull]
    /\ trace' = <<>>
    /\ UNCHANGED <<astVars, cppVars, rootInterface, proxySource, stubSource,
                   passthroughSource, headers, svc>>

\* A transaction with the i-th method's code arrives at the stub, the token
\* in its parcel matching the method's interface or not.
OnTransact(i, tokenMatches) ==
    /\ ~aborted
    /\ stubSource # <<>>
    /\ call.pc = 0
    /\ i \in 1..Len(stubSource)
    /\ call' = [IdleCall EXCEPT !.side = "stub", !.index = i, !.pc = 1,
                                !.tokenMatches = tokenMatches]
    /\ trace' = <<>>
    /\ UNCHANGED <<astVars, cppVars, rootInterface, proxySource, stubSource,
                   passthroughSource, headers, svc>>

\* Transaction codes that may arrive; 99 is the code of no method.
TransactionCodes == {1, 99}

\* The nesting of onTransact calls that is followed.
MaxDepth == 3

\* The switch of onTransact: the case of the method with this serial id,
\* 0 for the default case.
SwitchCase(code) ==
    LET hits == {i \in 1..Len(stubSource) : stubSource[i].method.serialId = code}
    IN  IF hits = {} THEN 0 ELSE CHOOSE i \in hits : TRUE

\* A transaction with a code that no case of the switch has arrives at the
\* stub: the default case runs.
OnTransactDefault(code) ==
    /\ ~aborted
    /\ stubSource # <<>>
    /\ call.pc = 0
    /\ SwitchCase(code) = 0
    /\ call' = [IdleCall EXCEPT !.side = "stubDefault", !.index = code, !.pc = 1,
                                !.depth = 1]
    /\ trace' = <<>>
    /\ UNCHANGED <<astVars, cppVars, rootInterface, proxySource, stubSource,
                   passthroughSource, headers, svc>>

\* A client calls the i-th method of the pass-through adapter, with a null
\* callback or not if the method takes one.
PassthroughCall(i, cbIsNull) ==
    /\ ~aborted
    /\ passthroughSource # <<>>
    /\ call.pc = 0
    /\ call.taskPc = 0
    /\ i \in 1..Len(passthroughSource)
    /\ cbIsNull => (/\ passthroughSource[i].method.results # <<>>
                    /\ CanElideCallback(passthroughSource[i].method) = <<>>)
    /\ call' = [IdleCall EXCEPT !.side = "passthrough", !.index = i, !.pc = 1,
                                !.cbIsNull = cbIsNull]
    /\ trace' = <<>>
    /\ UNCHANGED <<astVars, cppVars, rootInterface, proxySource, stubSource,
                   passthroughSource, headers, svc>>

\* The body that is running.
Body ==
    IF call.side = "proxy" THEN proxySource[call.index].body
    ELSE IF call.side = "passthrough" THEN passthroughSource[call.index].body
    ELSE IF call.side = "stubDefault" THEN StubDefaultCase
    ELSE stubSource[call.index].body

\* The position of the (only) statement with this operation in the body.
IndexOf(body, op) == CHOOSE i \in 1..Len(body) : body[i].op = op

\* What the trace keeps of an executed statement, and the thread that
\* executed it: the caller's or the task runner's (for addOnewayTask the
\* trace keeps the tasks the queue held in place of the operands).
Event(stmt, ok) ==
    [op |-> stmt.op, obj |-> stmt.obj, args |-> stmt.args, ok |-> ok,
     thread |-> "caller"]

\* The statements that only act: they cannot fail and the next one follows.
PlainOps ==
    {"atrace_begin", "atrace_end", "instrumentation", "startThreadPool",
     "setFromStatusT", "callback", "transactCallback", "cppImpl"}

\* The statements that set _hidl_err and test it.
FallibleOps ==
    {"writeInterfaceToken", "write", "resolve", "read", "readStatus", "transact",
     "writeStatusOk"}

\* The call with the statement after the current one next; a body that
\* ends there (a reserved method's own proxy body) has returned.
Advance ==
    IF call.pc = Len(Body) THEN [call EXCEPT !.pc = 0, !.outcome = "end"]
    ELSE [call EXCEPT !.pc = @ + 1]

\* The call after a statement that failed: on to _hidl_error, out of the
\* case, or on as if nothing had happened.
Fail(mode) ==
    IF mode = "goto"
    THEN [call EXCEPT !.pc = IndexOf(Body, "label"), !.hidlErr = "FAILED"]
    ELSE IF mode = "break"
    THEN [call EXCEPT !.pc = 0, !.hidlErr = "FAILED", !.outcome = "break"]
    ELSE Advance

\* The running call executes its next statement.
Step ==
    /\ call.pc > 0
    /\ UNCHANGED <<mPackage, objs, mScopePath, mDefinedTypesByFullName,
                   mImportedASTs, mImportedNames, mImportedNamesForJava, last,
                   scopeCalls, cppVars, rootInterface, proxySource, stubSource,
                   passthroughSource, headers, svc>>
    /\ LET st == Body[call.pc]
       IN  CASE st.op \in PlainOps \/ (st.op = "callImpl" /\ st.mode # "callback") ->
                  /\ trace' = Append(trace, Event(st, TRUE))
                  /\ call' = Advance
                  /\ UNCHANGED aborted
             [] st.op \in FallibleOps ->
                  \E ok \in BOOLEAN :
                     /\ trace' = Append(trace, Event(st, ok))
                     /\ call' = IF ok THEN Advance ELSE Fail(st.mode)
                     /\ UNCHANGED aborted
             [] st.op = "ifNullReturn" ->
                  /\ call' = IF call.cbIsNull
                             THEN [call EXCEPT !.pc = 0, !.outcome = st.args[1]]
                             ELSE Advance
                  /\ UNCHANGED <<trace, aborted>>
             [] st.op = "ifNotOkReturn" ->
                  \E isOk \in BOOLEAN :
                     /\ call' = IF isOk THEN Advance
                                ELSE [call EXCEPT !.pc = 0, !.outcome = st.obj]
                     /\ UNCHANGED <<trace, aborted>>
             [] st.op = "return" ->
                  /\ call' = [call EXCEPT !.pc = 0, !.outcome = "return"]
                  /\ trace' = Append(trace, Event(st, TRUE))
                  /\ UNCHANGED aborted
             [] st.op = "label" ->
                  /\ call' = Advance
                  /\ UNCHANGED <<trace, aborted>>
             [] st.op = "enforceInterface" ->
                  /\ trace' = Append(trace, Event(st, call.tokenMatches))
                  /\ call' = IF call.tokenMatches THEN Advance
                             ELSE [call EXCEPT !.pc = 0, !.hidlErr = "BAD_TYPE",
                                               !.outcome = "break"]
                  /\ UNCHANGED aborted
             [] st.op = "callImpl" /\ st.mode = "callback" ->
                  \E n \in 0..MaxCallbackCalls :
                     /\ trace' = Append(trace, Event(st, TRUE))
                     /\ call' = [Advance EXCEPT !.cbLeft = n, !.cbCalls = n]
                     /\ UNCHANGED aborted
             [] st.op = "lambda" ->
                  /\ call' = IF call.cbLeft = 0
                             THEN [call EXCEPT !.pc = IndexOf(Body, "lambdaEnd") + 1]
                             ELSE Advance
                  /\ UNCHANGED <<trace, aborted>>
             [] st.op = "ifCalledFatal" ->
                  /\ aborted' = call.called
                  /\ call' = IF call.called
                             THEN [call EXCEPT !.pc = 0, !.outcome = "fatal"]
                             ELSE [Advance EXCEPT !.called = TRUE]
                  /\ UNCHANGED trace
             [] st.op = "lambdaEnd" ->
                  /\ call' = IF call.cbLeft > 1
                             THEN [call EXCEPT !.pc = IndexOf(Body, "lambda") + 1,
                                               !.cbLeft = @ - 1]
                             ELSE [Advance EXCEPT !.cbLeft = 0]
                  /\ UNCHANGED <<trace, aborted>>
             [] st.op = "ifNotCalledFatal" ->
                  /\ aborted' = ~call.called
                  /\ call' = IF call.called THEN Advance
                             ELSE [call EXCEPT !.pc = 0, !.outcome = "fatal"]
                  /\ UNCHANGED trace
             [] st.op = "returnCall" ->
                  \* An unqualified onTransact in a member function of the
                  \* stub class names that class's own override: the call
                  \* enters the same switch with the same code.
                  /\ call.depth < MaxDepth
                  /\ trace' = Append(trace, Event(st, TRUE))
                  /\ call' = [call EXCEPT !.depth = @ + 1,
                                          !.pc = IF SwitchCase(call.index) = 0
                                                 THEN 1 ELSE 0]
                  /\ UNCHANGED aborted
             [] st.op = "wrap" ->
                  \* ok: the value is null or remote and is taken as it
                  \* is, or its wrapper is found; otherwise handleError.
                  \E ok \in BOOLEAN :
                     /\ trace' = Append(trace, Event(st, ok))
                     /\ call' =
                          IF ok THEN Advance
                          ELSE IF st.mode = "return"
                          THEN [call EXCEPT !.pc = 0,
                                            !.outcome = "EX_TRANSACTION_FAILED"]
                          ELSE [call EXCEPT !.hidlError = "EX_TRANSACTION_FAILED",
                                            !.pc = IndexOf(Body, "lambdaEnd")]
                     /\ UNCHANGED aborted
             [] st.op = "addOnewayTask" ->
                  \* addOnewayTask: the task is queued, or the push is
                  \* refused and EX_TRANSACTION_FAILED is the method's value.
                  \E size \in QueueSizes :
                     /\ trace' = Append(trace, [Event(st, QueuePush(size))
                                                  EXCEPT !.args = <<size>>])
                     /\ call' =
                          IF QueuePush(size)
                          THEN [call EXCEPT !.task = "queued", !.taskPc = call.pc + 1,
                                            !.pc = IndexOf(Body, "taskEnd") + 1]
                          ELSE [call EXCEPT !.hidlReturn = "EX_TRANSACTION_FAILED",
                                            !.pc = IndexOf(Body, "taskEnd") + 1]
                     /\ UNCHANGED aborted
             [] st.op = "returnHidlReturn" ->
                  /\ trace' = Append(trace, Event(st, TRUE))
                  /\ call' = [call EXCEPT !.pc = 0, !.outcome = call.hidlReturn]
                  /\ UNCHANGED aborted
             [] st.op = "break" ->
                  /\ call' = [call EXCEPT !.pc = 0, !.outcome = "break"]
                  /\ UNCHANGED <<trace, aborted>>

\* The task runner's thread executes the next statement of the queued task.
RunTask ==
    /\ call.taskPc > 0
    /\ LET st == Body[call.taskPc]
       IN  IF st.op = "taskEnd"
           THEN /\ call' = [call EXCEPT !.taskPc = 0, !.task = "done"]
                /\ UNCHANGED trace
           ELSE /\ call' = [call EXCEPT !.taskPc = @ + 1]
                /\ trace' = Append(trace, [Event(st, TRUE) EXCEPT !.thread = "runner"])
    /\ UNCHANGED <<astVars, cppVars, rootInterface, proxySource, stubSource,
                   passthroughSource, headers, svc>>

\* mRootScope holds one interface, whose source is about to be generated.
InitEmit ==
    /\ outputPath = "none"
    /\ genPc = 0
    /\ err = "OK"
    /\ ran = <<>>
    /\ files = {}
    /\ returned = "none"
    /\ InitEmitIdle
    /\ rootInterface \in InterfaceNames
    /\ mPackage = FQ(PkgP, "1.0", <<>>)
    /\ objs = <<[NewObj("Scope", "", 0) EXCEPT !.types = <<2>>],
                [NewObj("Interface", rootInterface, 0) EXCEPT
                    !.fullName = FQ(PkgP, "1.0", <<rootInterface>>)]>>
    /\ mScopePath = <<1>>
    /\ mDefinedTypesByFullName = [k \in {FQ(PkgP, "1.0", <<rootInterface>>)} |-> 2]
    /\ mImportedASTs = {}
    /\ mImportedNames = {}
    /\ mImportedNamesForJava = {}
    /\ aborted = FALSE
    /\ scopeCalls = <<2, 0>>
    /\ last = [op |-> "addScopedType", ok |-> TRUE,
               arg |-> FQ(<<>>, "", <<rootInterface>>), obj |-> 2,
               name |-> FQ(PkgP, "1.0", <<rootInterface>>), via |-> "none",
               pre |-> [names |-> {}, java |-> {}, index |-> [k \in {} |-> 0],
                        imports |-> {}]]

NextEmit ==
    \/ GenerateSource
    \/ \E i \in 1..Len(proxySource), cbIsNull \in BOOLEAN : ProxyCall(i, cbIsNull)
    \/ \E i \in 1..Len(stubSource), tokenMatches \in BOOLEAN :
          OnTransact(i, tokenMatches)
    \/ \E code \in TransactionCodes : OnTransactDefault(code)
    \/ \E i \in 1..Len(passthroughSource), cbIsNull \in BOOLEAN :
          PassthroughCall(i, cbIsNull)
    \/ Step
    \/ RunTask

SpecEmit == InitEmit /\ [][NextEmit]_vars

(***************************************************************************)
(* The generated getService and registerAsService, run against the answers *)
(* of the transport layer (manifest, service managers, sysprop), which are *)
(* the inputs of a call.                                                   *)
(***************************************************************************)
Transports == {"HWBINDER", "TOGGLED", "PASSTHROUGH", "EMPTY"}

ServiceNames == {"default", "other"}

\* A call the generated code makes on the transport layer.
SvcEvent(op, on, args) == [op |-> op, on |-> on, args |-> args]

\* getService's inputs: its arguments, the transport of the manifest, and
\* what the calls it makes answer: blockingHalBinderizationEnabled() at its
\* first and at its second read; for the binderized lookup (sm) that
\* defaultServiceManager() is null, that sm->get is not ok, that castFrom
\* gives null, or an interface; for the pass-through lookup (pm) that
\* getPassthroughServiceManager() is null, that pm->get is not ok, that its
\* base interface is null, or a base interface.
GetServiceInputs ==
    [serviceName : ServiceNames, getStub : BOOLEAN, transport : Transports,
     blocking1 : BOOLEAN, blocking2 : BOOLEAN,
     sm : {"nullptr", "notOk", "castNull", "iface"},
     pm : {"nullptr", "notOk", "baseNull", "base"}]

\* The condition of the first block.
TriesBinderized(in) ==
    ~in.getStub /\ in.transport \in {"HWBINDER", "TOGGLED", "PASSTHROUGH", "EMPTY"}

\* The first block: the calls it makes and the iface it leaves, "binderized"
\* if it returned it.
GetServiceBinderized(name, in) ==
    IF ~TriesBinderized(in) THEN [events |-> <<>>, iface |-> "null"]
    ELSE IF in.sm = "nullptr"
    THEN [events |-> <<SvcEvent("defaultServiceManager", "hardware", <<>>)>>,
          iface |-> "null"]
    ELSE LET wait == IF in.transport = "HWBINDER"
                        \/ (in.transport = "TOGGLED" /\ in.blocking1)
                     THEN <<SvcEvent("waitForHwService", "hardware",
                                     <<name, in.serviceName>>)>>
                     ELSE <<>>
             get == <<SvcEvent("get", "sm", <<name, in.serviceName>>)>>
             cast == IF in.sm # "notOk" THEN <<SvcEvent("castFrom", name, <<"ret">>)>>
                     ELSE <<>>
         IN  [events |-> <<SvcEvent("defaultServiceManager", "hardware", <<>>)>>
                         \o wait \o get \o cast,
              iface |-> IF in.sm = "iface" THEN "binderized" ELSE "null"]

\* The second condition, with every transport.
TriesPassthroughAlways(in) == TRUE

\* The condition of the second block.
TriesPassthrough(in) ==
    \/ in.getStub
    \/ in.transport = "PASSTHROUGH"
    \/ (in.transport = "TOGGLED" /\ ~in.blocking2)
    \/ in.transport = "EMPTY"

\* The second block: the calls it makes and the iface it leaves,
\* "passthrough" for the new pass-through adapter around the base interface.
GetServicePassthrough(name, in) ==
    IF ~TriesPassthrough(in) THEN [events |-> <<>>, iface |-> "null"]
    ELSE IF in.pm = "nullptr"
    THEN [events |-> <<SvcEvent("getPassthroughServiceManager", "hardware", <<>>)>>,
          iface |-> "null"]
    ELSE LET wrap == IF in.pm = "base"
                     THEN <<SvcEvent("castFrom", name, <<"baseInterface">>),
                            SvcEvent("new", "Bs" \o name, <<"castFrom">>)>>
                     ELSE <<>>
         IN  [events |-> <<SvcEvent("getPassthroughServiceManager", "hardware", <<>>),
                           SvcEvent("get", "pm", <<name, in.serviceName>>)>>
                         \o wrap,
              iface |-> IF in.pm = "base" THEN "passthrough"
                        ELSE "null"]

\* getService(serviceName, getStub) of interface name.
GetServiceRun(name, in) ==
    LET first == GetServiceBinderized(name, in)
        second == GetServicePassthrough(name, in)
    IN  IF first.iface = "binderized"
        THEN [op |-> "getService", in |-> in, events |-> first.events,
              result |-> "binderized"]
        ELSE [op |-> "getService", in |-> in,
              events |-> first.events \o second.events, result |-> second.iface]

GetService ==
    /\ \E in \in GetServiceInputs : svc' = GetServiceRun(rootInterface, in)
    /\ UNCHANGED <<astVars, cppVars, rootInterface, proxySource, stubSource,
                   passthroughSource, headers, call, trace>>

\* registerAsService's inputs: its argument and what the calls it makes
\* answer: whether defaultServiceManager() is null, whether interfaceChain
\* is ok, whether it invoked its callback, whether sm->add is ok and the
\* bool it returns.
RegisterInputs ==
    [serviceName : ServiceNames, smNull : BOOLEAN, chainOk : BOOLEAN,
     chainCalled : BOOLEAN, addOk : BOOLEAN, addRet : BOOLEAN]

\* success without "&& ret.isOk()".
RegisterSuccessOfAdd(in) == in.chainCalled /\ in.addOk /\ in.addRet

\* success when registerAsService returns: false unless the callback set
\* it to addRet.isOk() && addRet, and then && ret.isOk().
RegisterSuccess(in) == (in.chainCalled /\ in.addOk /\ in.addRet) /\ in.chainOk

\* registerAsService(serviceName) of interface name.
RegisterAsServiceRun(name, in) ==
    IF in.smNull
    THEN [op |-> "registerAsService", in |-> in,
          events |-> <<SvcEvent("defaultServiceManager", "hardware", <<>>)>>,
          result |-> "INVALID_OPERATION"]
    ELSE [op |-> "registerAsService", in |-> in,
          events |-> <<SvcEvent("defaultServiceManager", "hardware", <<>>),
                       SvcEvent("interfaceChain", "this", <<>>)>>
                     \o (IF in.chainCalled
                         THEN <<SvcEvent("add", "sm",
                                         <<"chain", in.serviceName, "this">>)>>
                         ELSE <<>>),
          result |-> IF RegisterSuccess(in) THEN "OK" ELSE "UNKNOWN_ERROR"]

RegisterAsService ==
    /\ \E in \in RegisterInputs : svc' = RegisterAsServiceRun(rootInterface, in)
    /\ UNCHANGED <<astVars, cppVars, rootInterface, proxySource, stubSource,
                   passthroughSource, headers, call, trace>>

NextSvc ==
    \/ GetService
    \/ RegisterAsService

SpecSvc == InitEmit /\ [][NextSvc]_vars

(***************************************************************************)
(* Properties of lookupType and of the index, stated on the record "last"  *)
(* of the most recent call and on the AST's fields.                        *)
(***************************************************************************)

\* The types an imported AST defines.
ASTTypes(a) == {ASTTable[a].index[i] : i \in 1..Len(ASTTable[a].index)}

\* The defined types of the given imported ASTs whose full name ends with q.
ImportedTypesEnding(imports, q) ==
    {t \in UNION {ASTTypes(a) : a \in imports} :
        EndsWith(ImportedTypeTable[t].fullName, q)}

\* The imported ASTs, of those given, that define a type ending with q.
ImportedASTsEnding(imports, q) ==
    {a \in imports : ImportedTypesEnding({a}, q) # {}}

\* The members of the scope at position i of the path that q names: q is a
\* plain single identifier and the member has it as its local name.
MembersNamed(i, q) ==
    IF IsPlain(q) /\ Len(q.names) = 1
    THEN {objs[mScopePath[i]].types[j] : j \in 1..Len(objs[mScopePath[i]].types)}
         \cap {t \in 2..Len(objs) : objs[t].localName = q.names[1]}
    ELSE {}

\* The positions of the path whose scope has a member that q names.
ScopesNaming(q) == {i \in 1..Len(mScopePath) : MembersNamed(i, q) # {}}

Max(S) == CHOOSE x \in S : \A y \in S : y <= x

\* The sets of imported names are as they were before the last call.
NamesUnchanged ==
    /\ mImportedNames = last.pre.names
    /\ mImportedNamesForJava = last.pre.java

\* The last call was lookupType and returned no type.
LookupFailed == last.op = "lookupType" /\ ~last.ok /\ last.obj = 0

\* C2 as stated: lookupType returns no type and leaves both sets of imported
\* names unchanged whenever more than one distinct defined type among all
\* imported ASTs has a full name that ends with the queried name.
C2_AsStated ==
    (last.op = "lookupType"
        /\ Cardinality(ImportedTypesEnding(last.pre.imports, last.arg)) > 1)
    => (LookupFailed /\ NamesUnchanged)

\* C2 amended: lookupType returns no type and leaves both sets of imported
\* names unchanged whenever no scope on the path has a member the queried
\* name names and more than one imported AST defines a type whose full name
\* ends with the queried name.
C2_LookupAmbiguous ==
    (last.op = "lookupType"
        /\ ScopesNaming(last.arg) = {}
        /\ Cardinality(ImportedASTsEnding(last.pre.imports, last.arg)) > 1)
    => (LookupFailed /\ NamesUnchanged)

\* A lookup of a name with a type-name component that two imported ASTs match.
C2_Witness ==
    /\ last.op = "lookupType"
    /\ last.arg.names # <<>>
    /\ ScopesNaming(last.arg) = {}
    /\ Cardinality(ImportedASTsEnding(last.pre.imports, last.arg)) > 1
    /\ LookupFailed

\* C3: lookupType of a name with a type-name component that no scope on the
\* path and no imported AST matches, and that is not the unqualified
\* MQDescriptor, returns no type and leaves both sets unchanged.
C3_LookupUndefined ==
    (last.op = "lookupType"
        /\ last.arg.names # <<>>
        /\ ScopesNaming(last.arg) = {}
        /\ ImportedTypesEnding(last.pre.imports, last.arg) = {}
        /\ last.arg # FQ(<<>>, "", <<"MQDescriptor">>))
    => (LookupFailed /\ NamesUnchanged)

\* A lookup of an undefined name made while an AST is imported.
C3_Witness ==
    /\ last.op = "lookupType"
    /\ last.arg = FQ(<<>>, "", <<"Nope">>)
    /\ last.pre.imports # {}
    /\ LookupFailed

RECURSIVE Reaches(_, _, _)
\* Type u is met on the chain of referenced types from t within fuel steps.
Reaches(t, u, fuel) ==
    \/ t = u
    \/ /\ fuel > 0
       /\ IsTypeDef(t)
       /\ Reaches(TypeRec(t).referencedType, u, fuel - 1)

\* The number of types that exist: the AST's own and the imported ones.
TypeCount == (Len(objs) - 1) + Cardinality(ImportedTypeIds)

\* C4: for a plain identifier that a scope on the path has as a member,
\* lookupType returns the member of the innermost such scope with its
\* typedefs collapsed, whatever outer scopes or imported ASTs define.
C4_LocalShadows ==
    (last.op = "lookupType" /\ ScopesNaming(last.arg) # {})
    => /\ last.ok
       /\ ~IsTypeDef(last.obj)
       /\ \E m \in MembersNamed(Max(ScopesNaming(last.arg)), last.arg) :
             Reaches(m, last.obj, TypeCount)
       /\ NamesUnchanged

\* A lookup of a name that the innermost scope and the root scope both
\* define, or that the innermost scope and an imported AST both define.
C4_Witness ==
    /\ last.op = "lookupType"
    /\ Len(mScopePath) > 1
    /\ Len(mScopePath) \in ScopesNaming(last.arg)
    /\ \/ 1 \in ScopesNaming(last.arg)
       \/ ImportedTypesEnding(last.pre.imports, last.arg) # {}
    /\ last.obj \in MembersNamed(Len(mScopePath), last.arg)

\* The types of this AST that an add has put into a scope.
AddedTypes == {t \in 2..Len(objs) : objs[t].fullName # NoFQName}

\* C5 as stated: every entry of the defined-types index maps its key to a
\* type whose fullName is that key, every type added to a scope is the index
\* entry for its own fullName, and its fullName has the AST's package.
C5_IndexInvariant ==
    /\ \A k \in DOMAIN mDefinedTypesByFullName :
          objs[mDefinedTypesByFullName[k]].fullName = k
    /\ \A t \in AddedTypes :
          /\ objs[t].fullName \in DOMAIN mDefinedTypesByFullName
          /\ mDefinedTypesByFullName[objs[t].fullName] = t
          /\ objs[t].fullName.package = mPackage.package

\* C6 as stated: no AST of the import set has this AST's package and
\* version, and an addImport whose name, with this AST's package and version
\* as defaults, has them is rejected and adds nothing to the import set.
C6_NoSelfImport ==
    /\ \A a \in mImportedASTs :
          ~(/\ ASTTable[a].package.package = mPackage.package
            /\ ASTTable[a].package.version = mPackage.version)
    /\ (/\ last.op = "addImport"
        /\ ApplyDefaults(last.arg, mPackage.package, mPackage.version).package
              = mPackage.package
        /\ ApplyDefaults(last.arg, mPackage.package, mPackage.version).version
              = mPackage.version)
       => (~last.ok /\ mImportedASTs = last.pre.imports)

\* The files the coordinator is asked to parse for the imported name: the
\* name itself, or the interfaces of the package it names.
Requested(fqName) ==
    IF fqName.names # <<>> THEN <<fqName>> ELSE PackageInterfaces(fqName)

\* The coordinator fails on the imported name: it lists no interface of the
\* package, or it does not parse one of the files asked for.
CoordinatorFails(fqName) ==
    \/ fqName.names = <<>> /\ PackageStatus(fqName) # "OK"
    \/ \E i \in 1..Len(Requested(fqName)) :
          CoordinatorParse(Requested(fqName)[i]) = 0

\* C6: every AST that addImport adds to the import set has the package and
\* the version of the imported name after this AST's package and version
\* were applied as defaults, which may be this AST's own; addImport returns
\* false only when the coordinator fails to list or to parse, and when it
\* returns true every file asked for is in the import set.
C6_ImportEdges ==
    last.op = "addImport" =>
      /\ last.pre.imports \subseteq mImportedASTs
      /\ \A b \in mImportedASTs \ last.pre.imports :
            /\ ASTTable[b].package.package = last.arg.package
            /\ ASTTable[b].package.version = last.arg.version
      /\ ~last.ok <=> CoordinatorFails(last.arg)
      /\ last.ok =>
            \A i \in 1..Len(Requested(last.arg)) :
               CoordinatorParse(Requested(last.arg)[i]) \in mImportedASTs

\* An addImport of a name of this AST's own package and version returned
\* true and added the AST of that name.
C6_Witness ==
    /\ last.op = "addImport"
    /\ last.ok
    /\ last.arg.package = mPackage.package
    /\ last.arg.version = mPackage.version
    /\ \E b \in mImportedASTs \ last.pre.imports :
          /\ ASTTable[b].package.package = mPackage.package
          /\ ASTTable[b].package.version = mPackage.version

RECURSIVE ChainSteps(_, _)
\* The steps along referencedType from t to a type that is no TypeDef,
\* fuel + 1 if fuel steps do not reach one.
ChainSteps(t, fuel) ==
    IF ~IsTypeDef(t) THEN 0
    ELSE IF fuel = 0 THEN 1
    ELSE 1 + ChainSteps(TypeRec(t).referencedType, fuel - 1)

\* C7: from every type that exists, following referencedType reaches a type
\* that is no TypeDef in at most as many steps as there are types, and the
\* type a lookupType returns is never a TypeDef.
C7_CollapseTotal ==
    /\ \A t \in (2..Len(objs)) \cup ImportedTypeIds :
          ChainSteps(t, TypeCount) <= TypeCount
    /\ (last.op = "lookupType" /\ last.ok) => ~IsTypeDef(last.obj)

\* A lookup whose match is a typedef of a typedef (two steps to collapse),
\* and a lookup that matches a typedef declared in this AST.
C7_Witness ==
    /\ last.op = "lookupType"
    /\ last.ok
    /\ \/ /\ last.via = "import"
          /\ \E t \in ImportedTypesEnding(last.pre.imports, last.arg) :
                /\ ImportedTypeTable[t].fullName = last.name
                /\ ChainSteps(t, TypeCount) = 1 + 1
       \/ /\ last.via = "scope"
          /\ \E m \in MembersNamed(Max(ScopesNaming(last.arg)), last.arg) :
                IsTypeDef(m)

\* The interface C8 expects for a matched name: the type with the full name
\* <package>@<version>::<first name component>, if an imported AST defines
\* it as an interface.
NamedInterface(imports, name) ==
    {t \in UNION {ASTTypes(a) : a \in imports} :
        /\ IsInterface(t)
        /\ ImportedTypeTable[t].fullName
              = FQ(name.package, name.version, <<name.names[1]>>)}

\* The include target C8 expects for matched name and collapsed type.
ExpectedTarget(imports, name, type) ==
    IF IsInterface(type) THEN TypeRec(type).fullName
    ELSE IF NamedInterface(imports, name) # {}
    THEN FQ(name.package, name.version, <<name.names[1]>>)
    ELSE FQ(name.package, name.version, <<"types">>)

\* C8 as stated: a lookupType that resolves through the imported ASTs adds
\* exactly one include target to the imported-names set: the resolved
\* interface's own name, else the interface of the matched name's first
\* component, else <package>@<version>::types.
C8_IncludeTarget ==
    (last.op = "lookupType" /\ last.via = "import")
    => mImportedNames = last.pre.names
          \cup {ExpectedTarget(last.pre.imports, last.name, last.obj)}

\* The order C1 gives: interface header, stub header, wire-format helper
\* header, proxy header, combined source, pass-through header.
C1_Order ==
    <<"generateInterfaceHeader", "generateStubHeader", "generateHwBinderHeader",
      "generateProxyHeader", "generateAllSource", "generatePassthroughHeader">>

\* C1: the generators run are the first ones of the fixed order, each run
\* once; all but the last run returned OK; and what generateCpp returns is
\* the status of the last one run, which is OK only if all six have run.
C1_GenerateCppOrder ==
    /\ Len(ran) <= Len(C1_Order)
    /\ \A i \in 1..Len(ran) : ran[i].name = C1_Order[i]
    /\ \A i \in 1..(Len(ran) - 1) : ran[i].status = "OK"
    /\ returned # "none" =>
          /\ ran # <<>>
          /\ returned = ran[Len(ran)].status
          /\ returned = "OK" => Len(ran) = Len(C1_Order)
          /\ returned # "OK" =>
                \A i \in 1..Len(ran) : ran[i].status # "OK" => i = Len(ran)

\* generateCpp has returned the failure of a generator in the middle of the
\* order, after generators before it had opened their files.
C1_Witness ==
    /\ returned \notin {"none", "OK"}
    /\ Len(ran) > 1
    /\ Len(ran) < Len(C1_Order)
    /\ files # {}

(***************************************************************************)
(* Properties of the generated proxy bodies and stub cases.                *)
(***************************************************************************)
\* The positions in a sequence of statements or events with one of the ops.
Positions(seq, ops) == {i \in 1..Len(seq) : seq[i].op \in ops}

\* The positions that touch the data parcel's arguments.
ArgPositions(seq) ==
    {i \in Positions(seq, {"write", "resolve", "read"}) : seq[i].obj = "_hidl_data"}

\* In seq, op occurs exactly once, with the descriptor of the interface, and
\* before everything that touches the arguments.
OneTokenFirst(seq, op, interface) ==
    /\ Cardinality(Positions(seq, {op})) = 1
    /\ \A i \in Positions(seq, {op}) :
          /\ seq[i].obj = "_hidl_data"
          /\ seq[i].args = <<InterfaceTable[interface].fullName>>
          /\ \A j \in ArgPositions(seq) : i < j

\* In seq, nothing touches the arguments unless op has occurred before.
TokenBeforeArgs(seq, op) ==
    \A j \in ArgPositions(seq) : \E i \in Positions(seq, {op}) : i < j

\* A call of the given side has ended.
Ended(side) == call.side = side /\ call.pc = 0 /\ call.outcome # "none"

\* The method has its own body for the proxy / for the stub.
OverridesImpl(method, impl) == method.hidlReserved /\ impl \in method.overrides

\* C9 as stated: every generated proxy method body writes exactly one
\* interface token, the descriptor of the interface that defines the method,
\* before any argument, and every call of it does so.
C9_AsStated ==
    /\ \A i \in 1..Len(proxySource) :
          OneTokenFirst(proxySource[i].body, "writeInterfaceToken",
                        proxySource[i].interface)
    /\ call.side = "proxy" => TokenBeforeArgs(trace, "writeInterfaceToken")
    /\ Ended("proxy") =>
          OneTokenFirst(trace, "writeInterfaceToken", proxySource[call.index].interface)

\* C9 amended: the body of a reserved method with its own proxy
\* implementation is that implementation alone; every other generated proxy
\* method body writes exactly one interface token, the descriptor of the
\* interface that defines the method, before any argument; a call of it that
\* is rejected for a null callback writes nothing, and every other call
\* writes the token exactly once and before any argument.
C9_ProxyToken ==
    /\ \A i \in 1..Len(proxySource) :
          IF OverridesImpl(proxySource[i].method, "IMPL_PROXY")
          THEN Positions(proxySource[i].body, {"cppImpl"})
                  = 1..Len(proxySource[i].body)
          ELSE OneTokenFirst(proxySource[i].body, "writeInterfaceToken",
                             proxySource[i].interface)
    /\ call.side = "proxy" => TokenBeforeArgs(trace, "writeInterfaceToken")
    /\ (Ended("proxy") /\ ~OverridesImpl(proxySource[call.index].method, "IMPL_PROXY"))
       => IF call.outcome = "EX_ILLEGAL_ARGUMENT"
          THEN call.cbIsNull /\ trace = <<>>
          ELSE OneTokenFirst(trace, "writeInterfaceToken",
                             proxySource[call.index].interface)

\* A call of the child's proxy for a method the parent defines has written
\* the parent's token and then an argument, and has returned.
C9_Witness ==
    /\ Ended("proxy")
    /\ call.outcome = "return"
    /\ call.hidlErr = "OK"
    /\ proxySource[call.index].interface # rootInterface
    /\ ~proxySource[call.index].method.hidlReserved
    /\ \E j \in ArgPositions(trace) : trace[j].ok

\* No event of the trace reads an argument or invokes the implementation.
NothingReadOrInvoked ==
    Positions(trace, {"read", "resolve", "callImpl", "cppImpl"}) = {}

\* C10 as stated: every generated stub case checks exactly one interface
\* token, the descriptor of the interface that defines the method, before it
\* reads any argument; on a mismatch it sets BAD_TYPE and leaves the case
\* with no argument read and the implementation not invoked.
C10_AsStated ==
    /\ \A i \in 1..Len(stubSource) :
          OneTokenFirst(stubSource[i].body, "enforceInterface",
                        stubSource[i].interface)
    /\ call.side = "stub" => TokenBeforeArgs(trace, "enforceInterface")
    /\ (Ended("stub") /\ ~call.tokenMatches) =>
          /\ call.hidlErr = "BAD_TYPE"
          /\ call.outcome = "break"
          /\ NothingReadOrInvoked

\* C10 amended: the case of a reserved method with its own stub
\* implementation is that implementation and a break; every other generated
\* stub case checks exactly one interface token, the descriptor of the
\* interface that defines the method, before it reads any argument, and on a
\* mismatch sets BAD_TYPE and leaves the case with no argument read and the
\* implementation not invoked.
C10_StubToken ==
    /\ \A i \in 1..Len(stubSource) :
          IF OverridesImpl(stubSource[i].method, "IMPL_STUB")
          THEN Positions(stubSource[i].body, {"cppImpl", "break"})
                  = 1..Len(stubSource[i].body)
          ELSE OneTokenFirst(stubSource[i].body, "enforceInterface",
                             stubSource[i].interface)
    /\ call.side = "stub" => TokenBeforeArgs(trace, "enforceInterface")
    /\ (/\ Ended("stub")
        /\ ~OverridesImpl(stubSource[call.index].method, "IMPL_STUB")
        /\ ~call.tokenMatches) =>
          /\ call.hidlErr = "BAD_TYPE"
          /\ call.outcome = "break"
          /\ NothingReadOrInvoked
          /\ Cardinality(Positions(trace, {"enforceInterface"})) = 1

\* A transaction for a method with arguments whose token does not match has
\* left its case.
C10_Witness ==
    /\ Ended("stub")
    /\ ~call.tokenMatches
    /\ stubSource[call.index].method.args # <<>>
    /\ ~OverridesImpl(stubSource[call.index].method, "IMPL_STUB")
    /\ call.hidlErr = "BAD_TYPE"

(***************************************************************************)
(* Properties of the reply, of one-way methods and of the marshalling      *)
(* order.                                                                  *)
(***************************************************************************)
\* The number of events of the trace with this op on this object.
Count(seq, op, obj) ==
    Cardinality({i \in Positions(seq, {op}) : seq[i].obj = obj})

\* The method delivers its results through a callback.
ByCallback(method) == method.results # <<>> /\ CanElideCallback(method) = <<>>

\* The stub is running, or has run, the generated case of a method that
\* delivers its results through a callback.
InCallbackCase ==
    /\ call.side = "stub"
    /\ ByCallback(stubSource[call.index].method)
    /\ ~OverridesImpl(stubSource[call.index].method, "IMPL_STUB")

ReplyPositions(seq) ==
    {i \in Positions(seq, {"read", "readStatus", "resolve", "write",
                           "writeStatusOk"}) : seq[i].obj = "_hidl_reply"}

\* The proxy is running, or has run, the generated body of a one-way method.
InOnewayProxy ==
    /\ call.side = "proxy"
    /\ proxySource[call.index].method.oneway
    /\ ~OverridesImpl(proxySource[call.index].method, "IMPL_PROXY")

\* The stub is running, or has run, the generated case of a one-way method.
InOnewayStub ==
    /\ call.side = "stub"
    /\ stubSource[call.index].method.oneway
    /\ ~OverridesImpl(stubSource[call.index].method, "IMPL_STUB")

\* C12 as stated: for a one-way method the proxy's body has no statement on
\* the reply parcel and a call of it reads nothing from the reply; the stub's
\* case has no statement on the reply parcel and a transaction writes nothing
\* to the reply.
C12_AsStated ==
    /\ \A i \in 1..Len(proxySource) :
          proxySource[i].method.oneway => ReplyPositions(proxySource[i].body) = {}
    /\ \A i \in 1..Len(stubSource) :
          stubSource[i].method.oneway => ReplyPositions(stubSource[i].body) = {}
    /\ (call.side = "proxy" /\ proxySource[call.index].method.oneway)
          => ReplyPositions(trace) = {}
    /\ (call.side = "stub" /\ stubSource[call.index].method.oneway)
          => ReplyPositions(trace) = {}

\* C12 amended: for a one-way method that has no implementation of its own
\* on that side, the proxy's body has no statement on the reply parcel after
\* the transaction, only the exit hook and the return, and a call of it
\* reads nothing from the reply; the stub's case writes the OK status to the
\* reply parcel once, after the implementation has returned, writes no
\* result and does not call the transaction's callback.
C12_OnewayReply ==
    /\ \A i \in 1..Len(proxySource) :
          (/\ proxySource[i].method.oneway
           /\ ~OverridesImpl(proxySource[i].method, "IMPL_PROXY")) =>
             /\ ReplyPositions(proxySource[i].body) = {}
             /\ Positions(proxySource[i].body, {"callback", "ifNotOkReturn"}) = {}
    /\ \A i \in 1..Len(stubSource) :
          (/\ stubSource[i].method.oneway
           /\ ~OverridesImpl(stubSource[i].method, "IMPL_STUB")) =>
             /\ ReplyPositions(stubSource[i].body)
                   = Positions(stubSource[i].body, {"writeStatusOk"})
             /\ Cardinality(Positions(stubSource[i].body, {"writeStatusOk"})) = 1
             /\ Positions(stubSource[i].body, {"transactCallback"}) = {}
             /\ \A j \in Positions(stubSource[i].body, {"writeStatusOk"}) :
                   \E k \in Positions(stubSource[i].body, {"callImpl"}) : k < j
    /\ InOnewayProxy =>
          /\ ReplyPositions(trace) = {}
          /\ (Ended("proxy") /\ call.hidlErr = "OK") =>
                /\ call.outcome = "return"
                /\ \E j \in Positions(trace, {"transact"}) :
                      /\ trace[j].ok
                      /\ \A k \in (j + 1)..Len(trace) :
                            trace[k].op \in {"atrace_end", "instrumentation",
                                             "setFromStatusT", "return"}
    /\ InOnewayStub =>
          /\ Positions(trace, {"write", "resolve", "transactCallback"}) = {}
          /\ Count(trace, "writeStatusOk", "_hidl_reply") <= 1
          /\ (Ended("stub") /\ Positions(trace, {"callImpl"}) # {}) =>
                Count(trace, "writeStatusOk", "_hidl_reply") = 1

\* A one-way transaction has run its case: the implementation was invoked
\* and the status then written to the reply.
C12_Witness ==
    /\ InOnewayStub
    /\ Ended("stub")
    /\ Positions(trace, {"callImpl"}) # {}
    /\ trace[Len(trace)].op = "writeStatusOk"

\* The elements of a sequence.
Range(seq) == {seq[i] : i \in 1..Len(seq)}

\* Every transact of seq carries FLAG_ONEWAY exactly if the method is
\* one-way, and the method's serial id (kept by statements only).
FlagIffOneway(seq, method) ==
    \A j \in Positions(seq, {"transact"}) :
       ("FLAG_ONEWAY" \in Range(seq[j].args)) <=> method.oneway

\* C13: the transact call of a generated proxy method, as emitted and as
\* executed, carries FLAG_ONEWAY if and only if the method is one-way; a
\* generated body has one such call, with the method's serial id.
C13_OnewayFlag ==
    /\ \A i \in 1..Len(proxySource) :
          /\ FlagIffOneway(proxySource[i].body, proxySource[i].method)
          /\ ~OverridesImpl(proxySource[i].method, "IMPL_PROXY") =>
                /\ Cardinality(Positions(proxySource[i].body, {"transact"})) = 1
                /\ \A j \in Positions(proxySource[i].body, {"transact"}) :
                      proxySource[i].body[j].code = proxySource[i].method.serialId
    /\ call.side = "proxy" => FlagIffOneway(trace, proxySource[call.index].method)

\* A call of a one-way method of the proxy has made its transaction, and
\* the source has a method that is not one-way as well.
C13_Witness ==
    /\ InOnewayProxy
    /\ \E j \in Positions(trace, {"transact"}) :
          "FLAG_ONEWAY" \in Range(trace[j].args)
    /\ \E i \in 1..Len(proxySource) :
          /\ ~proxySource[i].method.oneway
          /\ Positions(proxySource[i].body, {"transact"}) # {}

\* The statements or events of seq that marshal on the parcel, in order:
\* each as the pass it belongs to ("value" or "resolve") and the variable.
RECURSIVE MarshalOrder(_, _)
MarshalOrder(seq, parcel) ==
    IF seq = <<>> THEN <<>>
    ELSE (IF seq[1].obj = parcel /\ seq[1].op \in {"read", "write", "resolve"}
          THEN <<[pass |-> IF seq[1].op = "resolve" THEN "resolve" ELSE "value",
                  name |-> seq[1].args[1]]>>
          ELSE <<>>)
         \o MarshalOrder(Tail(seq), parcel)

\* The variables of vars that need the second pass, in declaration order.
RECURSIVE NeedResolve(_)
NeedResolve(vs) ==
    IF vs = <<>> THEN <<>>
    ELSE (IF vs[1].needsResolveReferences THEN <<vs[1]>> ELSE <<>>)
         \o NeedResolve(Tail(vs))

\* Two passes over vars in declaration order: every value, then the
\* resolvers of the variables that need one.
TwoPasses(vs, prefix) ==
    [i \in 1..Len(vs) |-> [pass |-> "value", name |-> prefix \o vs[i].name]]
    \o [i \in 1..Len(NeedResolve(vs)) |->
           [pass |-> "resolve", name |-> prefix \o NeedResolve(vs)[i].name]]

\* a is an initial part of b.
IsPrefix(a, b) == Len(a) <= Len(b) /\ a = SubSeq(b, 1, Len(a))

\* C14: in every generated proxy body and stub case the arguments are
\* marshalled on the data parcel, and the results on the reply parcel, in two
\* passes in declaration order, every value before any reference resolver and
\* resolvers only for the variables that need one; the proxy's order of
\* writing equals the stub's order of reading, for the results the other way
\* round, and what a call executes follows that order.
C14_TwoPhaseOrder ==
    /\ \A i \in 1..Len(proxySource) :
          ~OverridesImpl(proxySource[i].method, "IMPL_PROXY") =>
            /\ MarshalOrder(proxySource[i].body, "_hidl_data")
                  = TwoPasses(proxySource[i].method.args, "")
            /\ MarshalOrder(proxySource[i].body, "_hidl_reply")
                  = TwoPasses(proxySource[i].method.results, "_hidl_out_")
    /\ \A i \in 1..Len(stubSource) :
          ~OverridesImpl(stubSource[i].method, "IMPL_STUB") =>
            /\ MarshalOrder(stubSource[i].body, "_hidl_data")
                  = TwoPasses(stubSource[i].method.args, "")
            /\ MarshalOrder(stubSource[i].body, "_hidl_reply")
                  = TwoPasses(stubSource[i].method.results, "_hidl_out_")
    /\ \A i \in 1..Len(proxySource) :
          (/\ ~OverridesImpl(proxySource[i].method, "IMPL_PROXY")
           /\ ~OverridesImpl(stubSource[i].method, "IMPL_STUB")) =>
            /\ MarshalOrder(proxySource[i].body, "_hidl_data")
                  = MarshalOrder(stubSource[i].body, "_hidl_data")
            /\ MarshalOrder(proxySource[i].body, "_hidl_reply")
                  = MarshalOrder(stubSource[i].body, "_hidl_reply")
    /\ (call.side \in {"proxy", "stub"} /\ call.index > 0) =>
          /\ IsPrefix(MarshalOrder(trace, "_hidl_data"),
                      MarshalOrder(Body, "_hidl_data"))
          /\ IsPrefix(MarshalOrder(trace, "_hidl_reply"),
                      MarshalOrder(Body, "_hidl_reply"))

\* A transaction for a method whose first argument needs the second pass
\* and whose second does not has read both and resolved the first.
C14_Witness ==
    /\ call.side = "stub"
    /\ Len(stubSource[call.index].method.args) > 1
    /\ stubSource[call.index].method.args[1].needsResolveReferences
    /\ MarshalOrder(trace, "_hidl_data")
          = TwoPasses(stubSource[call.index].method.args, "")

(***************************************************************************)
(* Properties of the default case of onTransact.                           *)
(***************************************************************************)
\* C15 as stated: the default case of the stub of an interface with a
\* super-interface hands the transaction to the onTransact of the
\* super-interface's stub, so that a transaction with a code of no method
\* does not enter the same onTransact again.
C15_DefaultDelegates ==
    (/\ rootInterface # "none"
     /\ InterfaceTable[rootInterface].superType # "none"
     /\ call.side = "stubDefault") => call.depth <= 1

(***************************************************************************)
(* Properties of the pass-through adapter.                                 *)
(***************************************************************************)
\* The method whose pass-through body is running or has run.
PassthroughMethod == passthroughSource[call.index].method

\* The pass-through adapter is running, or has run, a generated body.
InPassthrough ==
    /\ call.side = "passthrough"
    /\ ~OverridesImpl(PassthroughMethod, "IMPL_PASSTHROUGH")

\* The positions of the trace where the wrapping of an argument, or of a
\* result, failed.
FailedArgWraps ==
    {j \in Positions(trace, {"wrap"}) :
        /\ ~trace[j].ok
        /\ trace[j].obj \in Range(VarNames(PassthroughMethod.args, ""))}

FailedResultWraps ==
    {j \in Positions(trace, {"wrap"}) :
        /\ ~trace[j].ok
        /\ trace[j].obj \in Range(VarNames(PassthroughMethod.results, "_hidl_out_"))}

\* C16 as stated: a call of a pass-through method in which the wrapping of
\* an interface-typed value failed returns EX_TRANSACTION_FAILED; after a
\* failure for an argument the implementation is not invoked, and after a
\* failure for a result the caller's callback is not invoked with it.
C16_WrapFailure ==
    (InPassthrough /\ Ended("passthrough")) =>
      /\ FailedArgWraps # {} =>
            /\ call.outcome = "EX_TRANSACTION_FAILED"
            /\ Positions(trace, {"callImpl"}) = {}
      /\ FailedResultWraps # {} =>
            /\ call.outcome = "EX_TRANSACTION_FAILED"
            /\ \A j \in FailedResultWraps :
                  j < Len(trace) => trace[j + 1].op # "callback"

\* The positions of the trace where the implementation was invoked on the
\* given thread.
Invocations(thread) ==
    {j \in Positions(trace, {"callImpl"}) : trace[j].thread = thread}

\* The positions of the trace where addOnewayTask was refused / accepted.
Pushes(ok) == {j \in Positions(trace, {"addOnewayTask"}) : trace[j].ok = ok}

\* The one-way part of C17: the implementation is invoked by the task runner
\* only, after the task was pushed onto mOnewayQueue, whose push is refused
\* exactly when it holds 3000 tasks; a refused push makes the call return
\* EX_TRANSACTION_FAILED with the implementation never invoked.
OnewayQueued ==
    /\ Invocations("caller") = {}
    /\ Cardinality(Invocations("runner")) <= 1
    /\ \A j \in Invocations("runner") : \E k \in Pushes(TRUE) : k < j
    /\ \A j \in Positions(trace, {"addOnewayTask"}) :
          /\ trace[j].obj = "mOnewayQueue"
          /\ trace[j].ok <=> trace[j].args[1] < 3000
    /\ Pushes(FALSE) # {} =>
          /\ Positions(trace, {"callImpl"}) = {}
          /\ call.task = "none"
          /\ Ended("passthrough") => call.outcome = "EX_TRANSACTION_FAILED"
    /\ Pushes(TRUE) # {} =>
          /\ Ended("passthrough") => call.outcome = "OK"
          /\ call.task = "done" => Cardinality(Invocations("runner")) = 1

\* C17 as stated: every one-way call of the pass-through adapter pushes the
\* call of the implementation onto mOnewayQueue, bounded at 3000 tasks, and
\* a refused push returns EX_TRANSACTION_FAILED with the implementation not
\* invoked; every other call invokes the implementation on the caller's
\* thread before it returns.
C17_AsStated ==
    call.side = "passthrough" =>
      IF PassthroughMethod.oneway
      THEN /\ OnewayQueued
           /\ Ended("passthrough") =>
                 Cardinality(Positions(trace, {"addOnewayTask"})) = 1
      ELSE /\ Positions(trace, {"addOnewayTask"}) = {}
           /\ Invocations("runner") = {}
           /\ Ended("passthrough") =>
                 /\ Cardinality(Invocations("caller")) = 1
                 /\ trace[Len(trace)].op = "returnHidlReturn"

\* C17 amended: a call of a generated pass-through method that is not
\* rejected beforehand (for a null callback, with EX_ILLEGAL_ARGUMENT, or for
\* an interface-typed argument that cannot be wrapped, with
\* EX_TRANSACTION_FAILED, the implementation not invoked) pushes, if the
\* method is one-way, the call of the implementation onto mOnewayQueue,
\* bounded at 3000 tasks, a refused push returning EX_TRANSACTION_FAILED with
\* the implementation never invoked, and otherwise invokes the
\* implementation once on the caller's thread before it returns.
C17_OnewayQueue ==
    InPassthrough =>
      /\ PassthroughMethod.oneway => OnewayQueued
      /\ ~PassthroughMethod.oneway =>
            /\ Positions(trace, {"addOnewayTask"}) = {}
            /\ Invocations("runner") = {}
      /\ Ended("passthrough") =>
            IF call.cbIsNull
            THEN call.outcome = "EX_ILLEGAL_ARGUMENT" /\ trace = <<>>
            ELSE IF FailedArgWraps # {}
            THEN /\ call.outcome = "EX_TRANSACTION_FAILED"
                 /\ Positions(trace, {"callImpl", "addOnewayTask"}) = {}
            ELSE IF PassthroughMethod.oneway
            THEN Cardinality(Positions(trace, {"addOnewayTask"})) = 1
            ELSE /\ Cardinality(Invocations("caller")) = 1
                 /\ trace[Len(trace)].op = "returnHidlReturn"

\* A one-way call found the queue full: the push was refused and the call
\* has returned.
C17_Witness ==
    /\ InPassthrough
    /\ PassthroughMethod.oneway
    /\ Ended("passthrough")
    /\ Pushes(FALSE) # {}
    /\ call.outcome = "EX_TRANSACTION_FAILED"

\* The calls of the last getService / registerAsService with the given
\* operation on the given object.
SvcCalls(op, on) ==
    {j \in 1..Len(svc.events) : svc.events[j].op = op /\ svc.events[j].on = on}

\* The binderized lookup of the last getService gave no interface: no
\* service manager, get not ok, or castFrom null.
BinderizedFailed ==
    /\ SvcCalls("defaultServiceManager", "hardware") # {}
    /\ svc.in.sm \in {"nullptr", "notOk", "castNull"}

\* The last getService went to the pass-through service manager: it got the
\* manager and, if there is one, queried it with descriptor and name, and
\* returned the pass-through adapter around a base interface that is not
\* null, and null otherwise.
WentToPassthrough ==
    /\ SvcCalls("getPassthroughServiceManager", "hardware") # {}
    /\ IF svc.in.pm = "nullptr"
       THEN SvcCalls("get", "pm") = {} /\ svc.result = "null"
       ELSE /\ \E j \in SvcCalls("get", "pm") :
                  svc.events[j].args = <<rootInterface, svc.in.serviceName>>
            /\ svc.result = IF svc.in.pm = "base" THEN "passthrough" ELSE "null"
            /\ svc.result = "passthrough" <=>
                  SvcCalls("new", "Bs" \o rootInterface) # {}

\* C18 as stated: whenever the binderized lookup of getService fails or
\* getStub is true, getService goes to the pass-through service manager, for
\* every transport.
C18_AsStated ==
    (svc.op = "getService" /\ (BinderizedFailed \/ svc.in.getStub)) => WentToPassthrough

\* C18 amended: getService goes to the pass-through service manager exactly
\* when it did not return a binderized interface and getStub is true or the
\* transport is PASSTHROUGH, EMPTY, or TOGGLED with
\* blockingHalBinderizationEnabled() false; otherwise (HWBINDER, or TOGGLED
\* with it true, without getStub) a failed binderized lookup returns null
\* without the pass-through service manager; with getStub the binderized
\* service manager is not asked.
C18_Fallthrough ==
    svc.op = "getService" =>
      LET eligible == \/ svc.in.getStub
                      \/ svc.in.transport \in {"PASSTHROUGH", "EMPTY"}
                      \/ (svc.in.transport = "TOGGLED" /\ ~svc.in.blocking2)
      IN  /\ svc.in.getStub => SvcCalls("defaultServiceManager", "hardware") = {}
          /\ ~svc.in.getStub => SvcCalls("defaultServiceManager", "hardware") # {}
          /\ svc.result = "binderized" <=>
                ~svc.in.getStub /\ ~BinderizedFailed
          /\ svc.result = "binderized" =>
                SvcCalls("getPassthroughServiceManager", "hardware") = {}
          /\ (svc.result # "binderized" /\ eligible) => WentToPassthrough
          /\ (svc.result # "binderized" /\ ~eligible) =>
                /\ SvcCalls("getPassthroughServiceManager", "hardware") = {}
                /\ svc.result = "null"

\* A binderized lookup failed for transport EMPTY and getService returned
\* the pass-through adapter.
C18_Witness ==
    /\ svc.op = "getService"
    /\ svc.in.transport = "EMPTY"
    /\ BinderizedFailed
    /\ svc.result = "passthrough"

\* C19: registerAsService returns INVALID_OPERATION exactly when there is no
\* service manager, and then calls neither interfaceChain nor add; it
\* returns OK exactly when interfaceChain completed ok and add was called
\* and completed ok with true; it returns UNKNOWN_ERROR otherwise.
C19_RegisterResult ==
    svc.op = "registerAsService" =>
      LET added == SvcCalls("add", "sm") # {}
      IN  /\ svc.result \in {"INVALID_OPERATION", "OK", "UNKNOWN_ERROR"}
          /\ svc.result = "INVALID_OPERATION" <=> svc.in.smNull
          /\ svc.in.smNull =>
                SvcCalls("interfaceChain", "this") = {} /\ ~added
          /\ ~svc.in.smNull => SvcCalls("interfaceChain", "this") # {}
          /\ added =>
                svc.events[Len(svc.events)].args
                  = <<"chain", svc.in.serviceName, "this">>
          /\ svc.result = "OK" <=>
                /\ ~svc.in.smNull
                /\ svc.in.chainOk
                /\ added /\ svc.in.addOk /\ svc.in.addRet

\* add completed ok with true, but interfaceChain did not complete ok:
\* registerAsService returned UNKNOWN_ERROR.
C19_Witness ==
    /\ svc.op = "registerAsService"
    /\ SvcCalls("add", "sm") # {}
    /\ svc.in.addOk /\ svc.in.addRet
    /\ ~svc.in.chainOk
    /\ svc.result = "UNKNOWN_ERROR"

\* C20: when a call of a generated proxy method, stub case or pass-through
\* method has completed, every atrace scope its entry hook opened has been
\* closed by exactly one exit hook: the trace of the call holds as many
\* atrace_end as atrace_begin, on the error paths too.
C20_AtraceBalanced ==
    \A side \in {"proxy", "stub", "passthrough"} :
      (Ended(side) /\ call.outcome # "fatal") =>
        Count(trace, "atrace_end", "ATRACE_TAG_HAL")
          = Count(trace, "atrace_begin", "ATRACE_TAG_HAL")

RECURSIVE SelfAndAncestors(_)
\* The interface and the interfaces it inherits from.
SelfAndAncestors(i) ==
    {i} \cup (IF InterfaceTable[i].superType = "none" THEN {}
              ELSE SelfAndAncestors(InterfaceTable[i].superType))

\* seq has exactly one entry for every method of i and of its ancestors,
\* paired with the interface that defines the method, and nothing else, the
\* methods of an ancestor before those of its descendants.
FlattenedChain(seq, i) ==
    /\ \A a \in SelfAndAncestors(i) :
          \A k \in 1..Len(InterfaceTable[a].methods) :
            Cardinality({j \in 1..Len(seq) :
                           /\ seq[j].method = InterfaceTable[a].methods[k]
                           /\ seq[j].interface = a}) = 1
    /\ \A j \in 1..Len(seq) :
          /\ seq[j].interface \in SelfAndAncestors(i)
          /\ seq[j].method \in Range(InterfaceTable[seq[j].interface].methods)
    /\ \A j, k \in 1..Len(seq) :
          (j # k) => seq[j].method.name # seq[k].method.name
    /\ \A j, k \in 1..Len(seq) :
          j < k => Cardinality(SelfAndAncestors(seq[j].interface))
                     <= Cardinality(SelfAndAncestors(seq[k].interface))

\* The methods of seq, each with the interface that defines it.
MethodsOf(seq) == {<<seq[j].method.name, seq[j].interface>> : j \in 1..Len(seq)}

\* C21: once the sources are generated, the proxy header, the proxy source,
\* the pass-through header and the switch of the stub's onTransact each hold
\* exactly one entry for every method of the inherited chain, the root's
\* first, each with the interface that defines it; the codes the proxy
\* sends are the codes of the stub's cases; the interface header declares
\* the interface's own methods and no others.
C21_FlattenedMethods ==
    proxySource # <<>> =>
      /\ FlattenedChain(headers.proxy, rootInterface)
      /\ FlattenedChain(proxySource, rootInterface)
      /\ FlattenedChain(passthroughSource, rootInterface)
      /\ FlattenedChain(stubSource, rootInterface)
      /\ MethodsOf(proxySource) = MethodsOf(stubSource)
      /\ \A j \in 1..Len(proxySource) :
            \A k \in Positions(proxySource[j].body, {"transact"}) :
              /\ proxySource[j].body[k].code = proxySource[j].method.serialId
              /\ \E c \in 1..Len(stubSource) :
                    /\ stubSource[c].method.serialId = proxySource[j].body[k].code
                    /\ stubSource[c].method = proxySource[j].method
      /\ Len(headers.interface) = Len(InterfaceTable[rootInterface].methods)
      /\ \A j \in 1..Len(headers.interface) :
            /\ headers.interface[j].method = InterfaceTable[rootInterface].methods[j]
            /\ headers.interface[j].interface = rootInterface

\* The sources of an interface with two ancestors are generated: more
\* cases in the stub than methods in the interface header.
C21_Witness ==
    /\ proxySource # <<>>
    /\ Cardinality(SelfAndAncestors(rootInterface)) = 3
    /\ Len(stubSource) > Len(headers.interface)
    /\ Len(headers.interface) > 0
    /\ \E j \in 1..Len(stubSource) : stubSource[j].interface # rootInterface

\* The base classes a stub class has as C22 states them: the stub class of
\* the super-interface, or, for IBase, the binder and the instrumentor.
BasesAsStated(i) ==
    IF InterfaceTable[i].superType = "none"
    THEN {"::android::hardware::BHwBinder", "::android::hardware::HidlInstrumentor"}
    ELSE {GetInterfaceStubName(InterfaceTable[i].superType)}

\* C22 as stated: the stub class of an interface with a super-interface
\* derives from the stub class of that super-interface, the stub class of
\* IBase from the binder server base and the instrumentor.
C22_AsStated ==
    headers.stubBases # <<>> => Range(headers.stubBases) = BasesAsStated(rootInterface)

\* C22 amended: the stub class of every interface other than IBase derives
\* from the stub class of IBase, whatever its super-interface is; the stub
\* class of IBase, and only it, derives from the binder server base and the
\* instrumentor.
C22_StubBases ==
    headers.stubBases # <<>> =>
      /\ (rootInterface # "IBase") =>
            headers.stubBases = <<GetInterfaceStubName("IBase")>>
      /\ (rootInterface = "IBase") =>
            headers.stubBases = <<"::android::hardware::BHwBinder",
                                  "::android::hardware::HidlInstrumentor">>
      /\ "::android::hardware::BHwBinder" \in Range(headers.stubBases)
            <=> InterfaceTable[rootInterface].superType = "none"

\* The stub header of an interface whose super-interface is not IBase is
\* written.
C22_Witness ==
    /\ headers.stubBases # <<>>
    /\ InterfaceTable[rootInterface].superType \notin {"none", "IBase"}
    /\ headers.stubBases = <<GetInterfaceStubName("IBase")>>

\* The stub has run a generated case to its break, the implementation
\* having been invoked.
StubCompleted ==
    /\ Ended("stub")
    /\ ~OverridesImpl(stubSource[call.index].method, "IMPL_STUB")
    /\ call.outcome = "break"
    /\ Positions(trace, {"callImpl"}) # {}

\* C23: a stub case that reached the call of the implementation and ran to
\* its break has written the OK status to the reply exactly once, after the
\* implementation was invoked and before every result: right after the
\* implementation returned and before the value for an elided result,
\* inside the callback and first of its writes for results through a
\* callback, right after the server-exit instrumentation for no result.
C23_StatusFirst ==
    StubCompleted =>
      LET method == stubSource[call.index].method
          body == stubSource[call.index].body
          status == {j \in Positions(trace, {"writeStatusOk"}) :
                        trace[j].obj = "_hidl_reply"}
          results == {j \in Positions(trace, {"write", "resolve"}) :
                         trace[j].obj = "_hidl_reply"}
      IN  /\ Cardinality(status) = 1
          /\ \A j \in status :
                /\ \A k \in results : j < k
                /\ \A k \in Positions(trace, {"callImpl"}) : k < j
                /\ IF CanElideCallback(method) # <<>>
                   THEN /\ trace[j - 1].op = "callImpl"
                        /\ trace[j + 1].op = "write"
                        /\ trace[j + 1].args
                              = <<"_hidl_out_" \o CanElideCallback(method)[1].name>>
                   ELSE IF method.results # <<>>
                   THEN /\ \A b \in Positions(body, {"writeStatusOk"}) :
                              /\ \E l \in Positions(body, {"lambda"}) : l < b
                              /\ \E l \in Positions(body, {"lambdaEnd"}) : b < l
                        /\ call.cbCalls = 1
                        /\ results # {}
                        /\ \A k \in results \cup {j} :
                              \E l \in Positions(trace, {"transactCallback"}) : k < l
                   ELSE /\ results = {}
                        /\ trace[j - 1].op = "instrumentation"
                        /\ trace[j - 1].obj = "SERVER_API_EXIT"

\* The case of a method with results through a callback ran to its break
\* with the results written to the reply.
C23_Witness ==
    /\ StubCompleted
    /\ ByCallback(stubSource[call.index].method)
    /\ Positions(trace, {"write"}) # {}
    /\ Count(trace, "writeStatusOk", "_hidl_reply") = 1

\* The proxy is running, or has run, the generated body of a method whose
\* results go through a callback.
InCallbackProxy ==
    /\ call.side = "proxy"
    /\ ByCallback(proxySource[call.index].method)
    /\ ~OverridesImpl(proxySource[call.index].method, "IMPL_PROXY")

\* The positions of the trace where a parcel operation or the transaction
\* failed.
FailedSteps == {j \in 1..Len(trace) : ~trace[j].ok}

\* The events of the trace before position j with the given operation on
\* the given object, as the set of their first operands.
DoneBefore(j, op, obj) ==
    {trace[k].args[1] : k \in {k \in 1..(j - 1) :
                                  trace[k].op = op /\ trace[k].obj = obj}}

\* C24: the proxy of a method with results through a callback invokes the
\* caller's callback at most once, and only after the token, every
\* argument, the transaction, the status of the reply (read, and ok) and
\* every result went well; after a failure of any of them the callback is
\* not invoked and the call returns the failing status.
C24_ProxyCallback ==
    InCallbackProxy =>
      LET method == proxySource[call.index].method
          invoked == Positions(trace, {"callback"})
      IN  /\ Cardinality(invoked) <= 1
          /\ \A j \in invoked :
                /\ \A k \in 1..(j - 1) : trace[k].ok
                /\ DoneBefore(j, "writeInterfaceToken", "_hidl_data")
                      = {Descriptor(proxySource[call.index].interface)}
                /\ DoneBefore(j, "write", "_hidl_data")
                      = Range(VarNames(method.args, ""))
                /\ DoneBefore(j, "resolve", "_hidl_data")
                      = Range(VarNames(NeedResolve(method.args), ""))
                /\ DoneBefore(j, "transact", "remote") = {"_hidl_data"}
                /\ DoneBefore(j, "readStatus", "_hidl_reply") = {"_hidl_status"}
                /\ DoneBefore(j, "read", "_hidl_reply")
                      = Range(VarNames(method.results, "_hidl_out_"))
                /\ DoneBefore(j, "resolve", "_hidl_reply")
                      = Range(VarNames(NeedResolve(method.results), "_hidl_out_"))
                /\ trace[j].args = VarNames(method.results, "_hidl_out_")
                /\ call.hidlErr = "OK"
                /\ call.outcome \in {"none", "return"}
          /\ FailedSteps # {} =>
                /\ invoked = {}
                /\ call.hidlErr = "FAILED"
                /\ Ended("proxy") =>
                      /\ call.outcome = "return"
                      /\ trace[Len(trace)].args = <<"_hidl_status">>
          /\ (Ended("proxy") /\ call.outcome = "_hidl_status") => invoked = {}
          /\ (Ended("proxy") /\ call.outcome = "return" /\ FailedSteps = {}) =>
                Cardinality(invoked) = 1

\* A result could not be read from the reply: the call has returned the
\* failure without the callback.
C24_Witness ==
    /\ InCallbackProxy
    /\ Ended("proxy")
    /\ \E j \in FailedSteps : trace[j].op = "read" /\ trace[j].obj = "_hidl_reply"
    /\ Positions(trace, {"callback"}) = {}
    /\ call.outcome = "return"

\* C25: addImport applies this AST's package and version as defaults to
\* the import name; for a name without a type name it asks the coordinator
\* for the interfaces of the package and parses them in turn into the
\* import set, returning false if the enumeration fails (nothing parsed) or
\* at the first file that does not parse (the files before it stay
\* imported), true otherwise; for a name with a type name it parses that
\* file alone and returns false exactly if it does not parse.
C25_AddImport ==
    last.op = "addImport" =>
      LET import == last.name
          fqName == last.arg
          list == PackageInterfaces(fqName)
          broken == {i \in 1..Len(list) : CoordinatorParse(list[i]) = 0}
          stop == IF broken = {} THEN Len(list) + 1
                  ELSE CHOOSE i \in broken : \A k \in broken : i <= k
      IN  /\ fqName.package = IF import.package = <<>> THEN mPackage.package
                               ELSE import.package
          /\ fqName.version = IF import.version = "" THEN mPackage.version
                               ELSE import.version
          /\ fqName.names = import.names
          /\ IF fqName.names = <<>>
             THEN IF PackageStatus(fqName) # "OK"
                  THEN ~last.ok /\ mImportedASTs = last.pre.imports
                  ELSE /\ last.ok <=> broken = {}
                       /\ mImportedASTs
                             = last.pre.imports
                                 \cup {CoordinatorParse(list[i]) : i \in 1..(stop - 1)}
             ELSE /\ last.ok <=> CoordinatorParse(fqName) # 0
                  /\ mImportedASTs
                        = last.pre.imports \cup ({CoordinatorParse(fqName)} \ {0})

\* A package was imported whose second file does not parse: addImport
\* returned false with the first file imported.
C25_Witness ==
    /\ last.op = "addImport"
    /\ last.arg.names = <<>>
    /\ ~last.ok
    /\ PackageStatus(last.arg) = "OK"
    /\ mImportedASTs # last.pre.imports

\* The last call is a lookupType that resolved its name through an imported
\* AST.
ResolvedByImport == last.op = "lookupType" /\ last.ok /\ last.via = "import"

\* The full names of the interfaces that enclose type t: the interfaces of
\* t's package and version named by the first component of t's name.
EnclosingInterfaces(t) ==
    IF Len(TypeRec(t).fullName.names) < 2 THEN {}
    ELSE {TypeRec(i).fullName : i \in
            {i \in ImportedTypeIds :
               /\ ImportedTypeTable[i].kind = "Interface"
               /\ ImportedTypeTable[i].fullName
                     = FQ(TypeRec(t).fullName.package, TypeRec(t).fullName.version,
                          <<TypeRec(t).fullName.names[1]>>)}}

JavaNameChoices ==
    LET ifc == FQ(last.name.package, last.name.version, <<last.name.names[1]>>)
        found == InterfaceMatches(ifc)
    IN  IF IsInterface(last.obj) THEN {{TypeRec(last.obj).fullName}}
        ELSE IF found # {} THEN {{TypeRec(m).fullName} : m \in found}
        ELSE IF IsNamedType(last.obj) THEN {{TypeRec(last.obj).fullName}}
        ELSE {{}}

MQDescriptorName == FQ(<<>>, "", <<"MQDescriptor">>)

\* C27 as stated: lookupType of the unqualified name MQDescriptor returns
\* the predefined type ::android::hardware::MQDescriptor.
C27_AsStated ==
    (last.op = "lookupType" /\ last.arg = MQDescriptorName) =>
      /\ last.ok
      /\ TypeRec(last.obj).kind = "PredefinedType"

\* C27 amended: lookupType of the unqualified name MQDescriptor returns the
\* predefined type exactly when no scope on the scope path and no imported
\* AST defines a type of that name; a type of an imported AST whose name
\* ends with MQDescriptor is returned in its place, and two imported ASTs
\* with such a type make the lookup fail; no other name gives the
\* predefined type.
C27_Predefined ==
    last.op = "lookupType" =>
      LET importing == ImportedASTsEnding(last.pre.imports, last.arg)
      IN  /\ (last.ok /\ TypeRec(last.obj).kind = "PredefinedType") <=>
                /\ last.arg = MQDescriptorName
                /\ ScopesNaming(last.arg) = {}
                /\ importing = {}
          /\ (last.ok /\ TypeRec(last.obj).kind = "PredefinedType") => NamesUnchanged
          /\ (/\ last.arg = MQDescriptorName
               /\ ScopesNaming(last.arg) = {}
               /\ Cardinality(importing) = 1) =>
                /\ last.ok
                /\ \E t \in ImportedTypesEnding(last.pre.imports, last.arg) :
                      Reaches(t, last.obj, TypeCount)
          /\ (/\ last.arg = MQDescriptorName
               /\ ScopesNaming(last.arg) = {}
               /\ Cardinality(importing) > 1) => ~last.ok

\* The unqualified MQDescriptor was looked up with an imported AST that
\* defines no such type: the predefined type was returned.
C27_Witness ==
    /\ last.op = "lookupType"
    /\ last.arg = MQDescriptorName
    /\ last.pre.imports # {}
    /\ last.ok
    /\ TypeRec(last.obj).kind = "PredefinedType"

(***************************************************************************)
(* C28: addScopedType and addTypeDef.                                      *)
(***************************************************************************)
\* The member of the innermost scope that has the local name of the type
\* the call that follows adds, 0 if there is none.
HeldBefore == ScopeMember(mScopePath[Len(mScopePath)], last'.arg.names[1])

\* C28: an addScopedType or addTypeDef returns false exactly when the
\* current scope already holds a type of the same local name, and then it
\* changes nothing: the index keeps its entries, the earlier type is still
\* the index entry of its full name and the rejected type has no full name;
\* when it returns true the full name of the type is the package and
\* version of the AST with the local names of the scopes on the path above
\* the root, then the local name of the type, and the index maps it to the
\* type.
C28_AddScoped ==
    [][(last'.op \in {"addScopedType", "addTypeDef"} /\ mScopePath # <<>>) =>
         /\ last'.ok <=> HeldBefore = 0
         /\ HeldBefore # 0 =>
               /\ UNCHANGED <<objs, mDefinedTypesByFullName, mScopePath, mPackage,
                              mImportedASTs, mImportedNames, mImportedNamesForJava>>
               /\ last'.name = NoFQName
               /\ last'.obj \in 1..Len(objs) => objs'[last'.obj].fullName = NoFQName
               /\ objs'[HeldBefore].fullName \in DOMAIN mDefinedTypesByFullName'
               /\ mDefinedTypesByFullName'[objs'[HeldBefore].fullName] = HeldBefore
         /\ HeldBefore = 0 =>
               LET fqName ==
                     FQ(mPackage.package, mPackage.version,
                        [i \in 1..Len(mScopePath) - 1 |->
                            objs[mScopePath[i + 1]].localName]
                        \o last'.arg.names)
               IN  /\ last'.name = fqName
                   /\ objs'[last'.obj].fullName = fqName
                   /\ objs'[last'.obj].localName = last'.arg.names[1]
                   /\ fqName \in DOMAIN mDefinedTypesByFullName'
                   /\ mDefinedTypesByFullName'[fqName] = last'.obj
                   /\ \A k \in DOMAIN mDefinedTypesByFullName \ {fqName} :
                         /\ k \in DOMAIN mDefinedTypesByFullName'
                         /\ mDefinedTypesByFullName'[k] = mDefinedTypesByFullName[k]
      ]_vars

\* A type was rejected in a scope below the root that holds an earlier type
\* of its local name, the earlier type being the index entry of a dotted
\* full name.
C28_Witness ==
    /\ last.op \in {"addScopedType", "addTypeDef"}
    /\ ~last.ok
    /\ Len(mScopePath) > 1
    /\ LET e == ScopeMember(mScopePath[Len(mScopePath)], last.arg.names[1])
       IN  /\ e # 0
           /\ Len(objs[e].fullName.names) = 2
           /\ mDefinedTypesByFullName[objs[e].fullName] = e

(***************************************************************************)
(* C29: the scope path under enterScope and leaveScope.                    *)
(***************************************************************************)
\* The enterScope calls less the leaveScope calls among h[i..n].
Balance(h, i, n) ==
    Cardinality({k \in i..n : h[k] # 0}) - Cardinality({k \in i..n : h[k] = 0})

\* No prefix of the calls holds more leaveScope than enterScope calls.
Balanced(h) == \A n \in 1..Len(h) : Balance(h, 1, n) >= 0

\* The positions of the enterScope calls whose scope has not been left: no
\* run of calls that follows holds more leaveScope than enterScope calls.
StillOpen(h) ==
    {i \in 1..Len(h) :
        h[i] # 0 /\ \A n \in i + 1..Len(h) : Balance(h, i + 1, n) >= 0}

\* The scope entered last among those not yet left, the root scope (1) if
\* there is none.
InnermostOpen(h) == IF StillOpen(h) = {} THEN 1 ELSE h[Max(StillOpen(h))]

\* C29: from construction on and as long as no prefix of the enterScope and
\* leaveScope calls holds more leaveScope than enterScope calls, the scope
\* path is not empty, its bottom element is the root scope and its top, which
\* scope() returns and where a successful add puts its type, is the scope
\* entered last among those not yet left; addScopedType and addTypeDef on
\* an empty scope path abort on the fatal check of scope() and neither
\* return nor change anything.
C29_ScopePath ==
    /\ [](Balanced(scopeCalls) =>
            /\ mScopePath # <<>>
            /\ mScopePath[1] = 1
            /\ Len(mScopePath) = 1 + Cardinality(StillOpen(scopeCalls))
            /\ mScopePath[Len(mScopePath)] = InnermostOpen(scopeCalls)
            /\ (last.op \in {"addScopedType", "addTypeDef"} /\ last.ok) =>
                  \E i \in 1..Len(objs[InnermostOpen(scopeCalls)].types) :
                     objs[InnermostOpen(scopeCalls)].types[i] = last.obj)
    /\ [][(mScopePath = <<>> /\ last'.op \in {"addScopedType", "addTypeDef"}) =>
            /\ aborted'
            /\ ~last'.ok
            /\ last'.via = "check"
            /\ UNCHANGED <<objs, mDefinedTypesByFullName, mScopePath>>]_vars

\* After a scope was entered and left, one more leaveScope emptied the scope
\* path and the add that followed ended on the fatal check.
C29_Witness ==
    /\ aborted
    /\ last.op \in {"addScopedType", "addTypeDef"}
    /\ last.via = "check"
    /\ mScopePath = <<>>
    /\ ~Balanced(scopeCalls)
    /\ \E i \in 1..Len(scopeCalls) : scopeCalls[i] # 0

(***************************************************************************)
(* C30: what a local resolution leaves alone.                              *)
(***************************************************************************)
\* The name the call that follows looks up is a single identifier without
\* package and version, and a scope on the path holds a type of that name.
BareAndHeld ==
    /\ last'.arg.package = <<>>
    /\ last'.arg.version = ""
    /\ Len(last'.arg.names) = 1
    /\ \E i \in 1..Len(mScopePath) :
          \E j \in 1..Len(objs[mScopePath[i]].types) :
             objs[objs[mScopePath[i]].types[j]].localName = last'.arg.names[1]

\* C30: a lookupType of a bare identifier that a scope on the path holds
\* returns the type from the scope loop, before any imported AST is asked,
\* and leaves the imported-names set, the Java imported-names set and the
\* import set as they were, also when the member is a typedef of a type of
\* an imported package.
C30_LocalLookupFrame ==
    [][(last'.op = "lookupType" /\ BareAndHeld) =>
         /\ last'.ok
         /\ last'.via = "scope"
         /\ UNCHANGED <<mImportedNames, mImportedNamesForJava, mImportedASTs>>
      ]_vars

\* A local typedef of a type of an imported package was looked up by its
\* bare name, which an imported AST defines as well, and the imported type
\* came back.
C30_Witness ==
    /\ last.op = "lookupType"
    /\ last.via = "scope"
    /\ last.obj \in ImportedTypeIds
    /\ ImportedTypesEnding(last.pre.imports, last.arg) # {}
    /\ \E i \in 1..Len(mScopePath) : \E m \in MembersNamed(i, last.arg) :
          objs[m].kind = "TypeDef" /\ objs[m].referencedType \in ImportedTypeIds

====
